---- MODULE Spec2Model ----
(***************************************************************************)
(* Matching of the connected-carpark list (external records) against the   *)
(* carparks rendered from the database (canonical records), as done by the *)
(* five analysis scripts of the repository:                                *)
(*   coords    analyze-connected-overlap-coords.py  (closest within 100 m) *)
(*   overlap   analyze-connected-overlap.py         (name-led lexical)     *)
(*   methods   analyze-matching-methods.py          (three methods apart)  *)
(*   aggregate analyze-unique-aggregate-matches.py  (three methods fused   *)
(*                                                   into all_matches)     *)
(*   geojson   analyze-connected-geojson-overlap.py (database carparks     *)
(*                                                   inside the connected  *)
(*                                                   buildings)            *)
(*                                                                         *)
(* Abstractions.  Strings are sequences of one-character strings.          *)
(* Coordinates are points of a line measured in metres, so that the        *)
(* haversine distance is the absolute difference.  Similarity scores are   *)
(* exact rationals [n, d] in lowest terms instead of floats; the inputs    *)
(* are chosen so that the float computation gives the same comparisons.    *)
(* A building polygon is the set of points it contains.                    *)
(***************************************************************************)
EXTENDS Integers, Sequences, FiniteSets, TLC

\* ------------------------------------------------------------------------
\* Rationals (the float scores of the scripts)
\* ------------------------------------------------------------------------
RECURSIVE GCD(_, _)
GCD(a, b) == IF b = 0 THEN a ELSE GCD(b, a % b)

Rat(n, d) == LET g == GCD(n, d) IN [n |-> n \div g, d |-> d \div g]

RAdd(x, y) == Rat(x.n * y.d + y.n * x.d, x.d * y.d)

RMul(x, y) == Rat(x.n * y.n, x.d * y.d)

RLess(x, y) == x.n * y.d < y.n * x.d

RLeq(x, y) == x.n * y.d <= y.n * x.d

Zero == Rat(0, 1)

One == Rat(1, 1)

\* ------------------------------------------------------------------------
\* Strings
\* ------------------------------------------------------------------------
UpperToLower ==
    [c \in {"A", "B", "C", "D", "E", "N", "R", "S", "T", "U", "X", "Y"} |->
        CASE c = "A" -> "a" [] c = "B" -> "b" [] c = "C" -> "c"
          [] c = "D" -> "d" [] c = "E" -> "e" [] c = "N" -> "n"
          [] c = "R" -> "r" [] c = "S" -> "s" [] c = "T" -> "t"
          [] c = "U" -> "u" [] c = "X" -> "x" [] c = "Y" -> "y"]

\* str.lower()
Lower(s) == [k \in 1..Len(s) |->
               IF s[k] \in DOMAIN UpperToLower THEN UpperToLower[s[k]] ELSE s[k]]

\* str.strip(): leading and trailing blanks removed
RECURSIVE LStrip(_)
LStrip(s) == IF s # <<>> /\ Head(s) = " " THEN LStrip(Tail(s)) ELSE s

RECURSIVE RStrip(_)
RStrip(s) == IF s # <<>> /\ s[Len(s)] = " "
             THEN RStrip(SubSeq(s, 1, Len(s) - 1)) ELSE s

Strip(s) == RStrip(LStrip(s))

\* str.replace(old, new): non-overlapping occurrences, left to right
RECURSIVE Replace(_, _, _)
Replace(s, old, new) ==
    IF Len(s) < Len(old) THEN s
    ELSE IF SubSeq(s, 1, Len(old)) = old
         THEN new \o Replace(SubSeq(s, Len(old) + 1, Len(s)), old, new)
         ELSE <<Head(s)>> \o Replace(Tail(s), old, new)

\* ' '.join(addr.split()): runs of blanks collapsed, none at either end
RECURSIVE CollapseSpaces(_)
CollapseSpaces(s) ==
    LET t == LStrip(s) IN
    IF t = <<>> THEN <<>>
    ELSE LET rest == CollapseSpaces(Tail(t)) IN
         IF Head(t) = " " THEN rest
         ELSE IF Len(t) > 1 /\ t[2] = " " /\ LStrip(Tail(t)) # <<>>
              THEN <<Head(t), " ">> \o rest
              ELSE <<Head(t)>> \o rest

\* the replacements table of normalize_address, in dictionary order
replacements ==
    << << <<"r", "o", "a", "d">>, <<"r", "d">> >>,
       << <<"s", "t", "r", "e", "e", "t">>, <<"s", "t">> >>,
       << <<"a", "v", "e", "n", "u", "e">>, <<"a", "v", "e">> >>,
       << <<"b", "u", "i", "l", "d", "i", "n", "g">>, <<"b", "l", "d", "g">> >>,
       << <<"c", "e", "n", "t", "r", "e">>, <<"c", "e", "n", "t", "e", "r">> >>,
       << <<"c", "a", "r", " ", "p", "a", "r", "k">>,
          <<"c", "a", "r", "p", "a", "r", "k">> >>,
       << <<",">>, <<>> >>,
       << <<".">>, <<>> >> >>

RECURSIVE ApplyReplacements(_, _)
ApplyReplacements(s, k) ==
    IF k > Len(replacements) THEN s
    ELSE ApplyReplacements(Replace(s, replacements[k][1], replacements[k][2]), k + 1)

normalize_address(addr) ==
    IF addr = <<>> THEN <<>>
    ELSE CollapseSpaces(ApplyReplacements(Strip(Lower(addr)), 1))

\* ------------------------------------------------------------------------
\* difflib.SequenceMatcher(None, a, b).ratio()
\* ------------------------------------------------------------------------
\* blocks <<i, j, k>> with a[i..i+k-1] = b[j..j+k-1], k >= 1
CommonBlocks(a, b) ==
    {blk \in (1..Len(a)) \X (1..Len(b)) \X (1..Len(a)) :
        /\ blk[1] + blk[3] - 1 <= Len(a)
        /\ blk[2] + blk[3] - 1 <= Len(b)
        /\ SubSeq(a, blk[1], blk[1] + blk[3] - 1)
             = SubSeq(b, blk[2], blk[2] + blk[3] - 1)}

\* find_longest_match: longest block; of those the earliest in a, then in b
find_longest_match(a, b) ==
    LET S == CommonBlocks(a, b) IN
    CHOOSE x \in S : \A y \in S :
        \/ x[3] > y[3]
        \/ x[3] = y[3] /\ x[1] < y[1]
        \/ x[3] = y[3] /\ x[1] = y[1] /\ x[2] <= y[2]

\* get_matching_blocks: total size of the blocks, found recursively to the
\* left and to the right of the longest one
RECURSIVE MatchingSize(_, _)
MatchingSize(a, b) ==
    IF CommonBlocks(a, b) = {} THEN 0
    ELSE LET x == find_longest_match(a, b) IN
         x[3] + MatchingSize(SubSeq(a, 1, x[1] - 1), SubSeq(b, 1, x[2] - 1))
              + MatchingSize(SubSeq(a, x[1] + x[3], Len(a)),
                             SubSeq(b, x[2] + x[3], Len(b)))

ratio(a, b) ==
    IF Len(a) + Len(b) = 0 THEN One
    ELSE Rat(2 * MatchingSize(a, b), Len(a) + Len(b))

\* similarity() of analyze-connected-overlap.py
similarity(a, b) == ratio(Lower(a), Lower(b))

address_similarity(addr1, addr2) ==
    ratio(normalize_address(addr1), normalize_address(addr2))

\* ------------------------------------------------------------------------
\* Inputs
\* ------------------------------------------------------------------------
\* largest number of rows of connected-carparks.csv
MaxExt == 2

\* longest address given to normalize_address on its own
MaxAddrLen == 5

\* longest address of a pair scored on its own
MaxPairLen == 2

\* the characters of those addresses
AddrAlphabet == {"r", "o", "a", "d", " ", ",", "."}

abc == <<"a", "b", "c">>

ABC == <<"A", "B", "C">>

abcd == <<"a", "b", "c", "d">>

xy == <<"x", "y">>

Road == <<"R", "o", "a", "d">>

rd == <<"r", "d">>

\* rows of connected-carparks.csv: Station Name, Address, Latitude/Longitude
ExtPool ==
    { [name |-> ABC, address |-> <<>>, pos |-> 250],
      [name |-> xy,  address |-> rd,   pos |-> 150],
      [name |-> xy,  address |-> <<>>, pos |-> 100] }

\* the carparks of latest_vacancy_with_location: name, display_address,
\* coordinates
DbPool ==
    { [name |-> abc,  addr |-> rd,   pos |-> 0],
      [name |-> abc,  addr |-> <<>>, pos |-> 300],
      [name |-> abcd, addr |-> <<>>, pos |-> 100],
      [name |-> xy,   addr |-> Road, pos |-> 200] }

\* features of the building GeoJSON: BUILDINGSTRUCTUREID, the geometry and
\* the points the reprojected polygon contains.  The geometry is a Polygon
\* that can be reprojected and built, another type ("Point"), which the
\* loader passes over, or a Polygon whose coordinates make the
\* reprojection or shape() raise ("Invalid").
F1 == [id |-> 1, geom |-> "Polygon", polygon |-> {150, 200}]

F2 == [id |-> 2, geom |-> "Polygon", polygon |-> {100, 150}]

F3 == [id |-> 3, geom |-> "Invalid", polygon |-> {}]

F4 == [id |-> 4, geom |-> "Point", polygon |-> {}]

F5 == [id |-> 5, geom |-> "Polygon", polygon |-> {100, 200}]

\* the building file: absent (<<>>), or its list of features (<<features>>)
BuildingFiles ==
    { <<>>, << <<F1, F5>> >>, << <<F2, F4, F1>> >>, << <<F2, F3>> >> }

\* features of connected-carparks.geojson: Place, the geometry type and the
\* points the polygon contains
G1 == [place |-> "P1", geom |-> "Polygon", polygon |-> {0, 100}]

G2 == [place |-> "P2", geom |-> "Point", polygon |-> {}]

G3 == [place |-> "P3", geom |-> "Polygon", polygon |-> {100, 200}]

\* connected-carparks.geojson, which the script expects to be there
GeojsonFiles == { << <<>> >>, << <<G2>> >>, << <<G2, G1, G3>> >> }

SeqsUpTo(S, n) == UNION {[1..k -> S] : k \in 0..n}

\* character order of the query's ORDER BY name
Alphabet == <<" ", ",", ".", "A", "B", "C", "D", "E", "N", "R", "S", "T", "U",
              "X", "Y", "a", "b", "c", "d", "e", "n", "o", "r", "s", "t", "u",
              "x", "y">>

CharRank(c) == CHOOSE k \in 1..Len(Alphabet) : Alphabet[k] = c

RECURSIVE StrLeq(_, _)
StrLeq(a, b) ==
    IF a = <<>> THEN TRUE
    ELSE IF b = <<>> THEN FALSE
    ELSE IF Head(a) = Head(b) THEN StrLeq(Tail(a), Tail(b))
    ELSE CharRank(Head(a)) < CharRank(Head(b))

\* cursor.fetchall(): the carparks that pass the WHERE clause, ordered by
\* name, each with its own park_id
DbResultsOf(pool) ==
    { [j \in 1..Len(q) |->
         [park_id |-> j, name |-> q[j].name, addr |-> q[j].addr, pos |-> q[j].pos]] :
      q \in { r \in SeqsUpTo(pool, Cardinality(pool)) :
                /\ \A j, k \in 1..Len(r) : r[j] = r[k] => j = k
                /\ \A j \in 1..Len(r) : \A k \in j..Len(r) :
                      StrLeq(r[j].name, r[k].name) } }

DbResults == DbResultsOf(DbPool)

\* a latitude or longitude column that is NULL in the database (None in the
\* fetched row); no point of the line is negative
NULL == -1

\* database carparks one of which has no coordinates
DbPoolNull ==
    { [name |-> abcd, addr |-> <<>>, pos |-> 100],
      [name |-> xy,   addr |-> Road, pos |-> NULL] }

\* a cell of the Latitude column as csv.DictReader gives it: text that
\* float() parses, text that it does not (blank included), or None for a
\* row that is shorter than the header
Cell(kind, value) == [kind |-> kind, value |-> value]

\* rows of connected-carparks.csv as read: those of ExtPool and two
\* without a usable latitude
CsvPool ==
    { [name |-> r.name, address |-> r.address, Latitude |-> Cell("number", r.pos)] :
        r \in ExtPool }
    \cup { [name |-> abcd, address |-> rd,   Latitude |-> Cell("text", 0)],
           [name |-> abc,  address |-> <<>>, Latitude |-> Cell("none", 0)] }

Scripts == {"coords", "overlap", "methods", "aggregate", "geojson"}

\* haversine_distance on the line of points
haversine_distance(p, q) == IF p >= q THEN p - q ELSE q - p

MATCH_THRESHOLD_METERS == 100

VARIABLES
    script,               \* which script runs
    pc,                   \* its position
    i,                    \* rows of connected_carparks done by the current loop
    db_carparks,          \* cursor.fetchall()
    connected_carparks,   \* rows read from the CSV
    building_file,        \* the building GeoJSON on disk
    buildings,            \* the reprojected buildings, once loaded
    matches,              \* coords, overlap: matches
    unmatched_connected,  \* coords, overlap: unmatched_connected
    coord_matches,        \* methods: coord_matches
    addr_matches,         \* methods: addr_matches
    polygon_matches,      \* methods: polygon_matches
    all_matches,          \* aggregate: all_matches, keyed by connected name
    report,               \* what the summary printed
    ran,                  \* any-order variant only: the method loops run so far
    unread,               \* rows of the CSV the loader has not read yet
    warnings,             \* number of "Warning: Skipping" lines printed
    addr,                 \* normalisation alone: the address given
    normalized,           \* normalisation alone: the results so far
    pair,                 \* address scoring alone: the two addresses
    addr_parts            \* address scoring alone: the address components

vars == <<script, pc, i, db_carparks, connected_carparks, building_file,
          buildings, matches, unmatched_connected, coord_matches,
          addr_matches, polygon_matches, all_matches, report, ran,
          unread, warnings, addr, normalized, pair, addr_parts>>

\* the state of normalize_address run on its own
text == <<addr, normalized, pair, addr_parts>>

\* the CSV loader's state
csv == <<unread, warnings>>

Methods == {"coordinate", "address", "polygon"}

inputs == <<script, db_carparks, connected_carparks, building_file>>

Init ==
    /\ script \in Scripts
    /\ pc = "start"
    /\ i = 0
    /\ db_carparks \in DbResults
    /\ connected_carparks \in
         (IF script = "geojson" THEN {<<>>} ELSE SeqsUpTo(ExtPool, MaxExt))
    /\ building_file \in
         (IF script \in {"methods", "aggregate"} THEN BuildingFiles
          ELSE IF script = "geojson" THEN GeojsonFiles ELSE {<<>>})
    /\ buildings = <<>>
    /\ matches = <<>>
    /\ unmatched_connected = <<>>
    /\ coord_matches = <<>>
    /\ addr_matches = <<>>
    /\ polygon_matches = <<>>
    /\ all_matches = <<>>
    /\ report = <<>>
    /\ ran = <<>>
    /\ unread = <<>>
    /\ warnings = 0
    /\ addr = <<>>
    /\ normalized = <<>>
    /\ pair = <<>>
    /\ addr_parts = <<>>

\* ------------------------------------------------------------------------
\* analyze-connected-overlap-coords.py
\* ------------------------------------------------------------------------
\* the inner loop over db_carparks from row j on: closest is <<>> (distance
\* inf, no match) or <<row, distance>>
\* mutant: "distance <= closest_distance", the last of the nearest rows wins
RECURSIVE ClosestLoopLast(_, _, _, _)
ClosestLoopLast(cp, db, j, closest) ==
    IF j > Len(db) THEN closest
    ELSE LET distance == haversine_distance(cp.pos, db[j].pos) IN
         IF closest = <<>> \/ distance <= closest[2]
         THEN ClosestLoopLast(cp, db, j + 1, <<db[j], distance>>)
         ELSE ClosestLoopLast(cp, db, j + 1, closest)

RECURSIVE ClosestLoop(_, _, _, _)
ClosestLoop(cp, db, j, closest) ==
    IF j > Len(db) THEN closest
    ELSE LET distance == haversine_distance(cp.pos, db[j].pos) IN
         IF closest = <<>> \/ distance < closest[2]
         THEN ClosestLoop(cp, db, j + 1, <<db[j], distance>>)
         ELSE ClosestLoop(cp, db, j + 1, closest)

\* float(db_lat) raises a TypeError on a NULL; the inner loop of the
\* standalone script visits every row
FloatRaises(db) == \E j \in 1..Len(db) : db[j].pos = NULL

\* mutant: a carpark for which the loop found no nearest row is passed over
CoordsStepPassesOver ==
    /\ script = "coords"
    /\ pc = "start"
    /\ i < Len(connected_carparks)
    /\ LET cp == connected_carparks[i + 1]
           closest == ClosestLoop(cp, db_carparks, 1, <<>>)
       IN IF closest # <<>> /\ closest[2] <= MATCH_THRESHOLD_METERS
          THEN /\ matches' = Append(matches,
                     [connected_name |-> cp.name, db_name |-> closest[1].name,
                      park_id |-> closest[1].park_id, distance_m |-> closest[2]])
               /\ UNCHANGED unmatched_connected
          ELSE IF closest = <<>>
          THEN UNCHANGED <<matches, unmatched_connected>>
          ELSE /\ unmatched_connected' = Append(unmatched_connected,
                     [name |-> cp.name,
                      nearest_db_name |-> <<closest[1].name>>])
               /\ UNCHANGED matches
    /\ i' = i + 1
    /\ UNCHANGED <<inputs, csv, text, pc, buildings, coord_matches, addr_matches,
                   polygon_matches, all_matches, report, ran>>

CoordsStep ==
    /\ script = "coords"
    /\ pc = "start"
    /\ i < Len(connected_carparks)
    /\ IF FloatRaises(db_carparks)
       THEN /\ pc' = "TypeError"
            /\ UNCHANGED <<i, matches, unmatched_connected>>
       ELSE /\ LET cp == connected_carparks[i + 1]
                   closest == ClosestLoop(cp, db_carparks, 1, <<>>)
               IN IF closest # <<>> /\ closest[2] <= MATCH_THRESHOLD_METERS
                  THEN /\ matches' = Append(matches,
                             [connected_name |-> cp.name, db_name |-> closest[1].name,
                              park_id |-> closest[1].park_id,
                              distance_m |-> closest[2]])
                       /\ UNCHANGED unmatched_connected
                  ELSE /\ unmatched_connected' = Append(unmatched_connected,
                             [name |-> cp.name,
                              nearest_db_name |-> IF closest # <<>>
                                                  THEN <<closest[1].name>>
                                                  ELSE <<>>])
                       /\ UNCHANGED matches
            /\ i' = i + 1
            /\ UNCHANGED pc
    /\ UNCHANGED <<inputs, csv, text, buildings, coord_matches, addr_matches,
                   polygon_matches, all_matches, report, ran>>

\* the SUMMARY block; the overlap percentage divides by len(connected_carparks)
CoordsSummary ==
    /\ script = "coords"
    /\ pc = "start"
    /\ i = Len(connected_carparks)
    /\ IF Len(connected_carparks) = 0
       THEN pc' = "ZeroDivisionError" /\ UNCHANGED report
       ELSE /\ pc' = "done"
            /\ report' = [matched |-> Len(matches),
                          unmatched |-> Len(unmatched_connected)]
    /\ UNCHANGED <<inputs, csv, text, i, buildings, matches, unmatched_connected,
                   coord_matches, addr_matches, polygon_matches, all_matches,
                   ran>>

\* ------------------------------------------------------------------------
\* analyze-connected-overlap.py
\* ------------------------------------------------------------------------
\* the dict comprehension db_names: one item per lower-cased name, at the
\* place of the first row with that name and with the value of the last
\* mutant: a name that is already a key keeps the value of its first row
RECURSIVE DbNamesFromKeepFirst(_, _, _)
DbNamesFromKeepFirst(db, j, items) ==
    IF j > Len(db) THEN items
    ELSE LET item == [key |-> Lower(db[j].name), park_id |-> db[j].park_id,
                      db_name |-> db[j].name, db_addr |-> db[j].addr]
         IN IF \E k \in 1..Len(items) : items[k].key = item.key
            THEN DbNamesFromKeepFirst(db, j + 1, items)
            ELSE DbNamesFromKeepFirst(db, j + 1, Append(items, item))

RECURSIVE DbNamesFrom(_, _, _)
DbNamesFrom(db, j, items) ==
    IF j > Len(db) THEN items
    ELSE LET item == [key |-> Lower(db[j].name), park_id |-> db[j].park_id,
                      db_name |-> db[j].name, db_addr |-> db[j].addr]
             at == {k \in 1..Len(items) : items[k].key = item.key}
         IN IF at = {}
            THEN DbNamesFrom(db, j + 1, Append(items, item))
            ELSE DbNamesFrom(db, j + 1,
                             [items EXCEPT ![CHOOSE k \in at : TRUE] = item])

db_names == DbNamesFrom(db_carparks, 1, <<>>)

\* db_names[key]
DbNamesGet(key) == db_names[CHOOSE k \in 1..Len(db_names) : db_names[k].key = key]

NameWeight == Rat(7, 10)

AddrWeight == Rat(3, 10)

\* "Compare addresses if available": 0 unless both addresses are there
OverlapAddrScore(conn_address, db_addr) ==
    IF conn_address # <<>> /\ db_addr # <<>>
    THEN similarity(conn_address, db_addr)
    ELSE Zero

\* the fuzzy loop over db_names.items() from item j on
RECURSIVE FuzzyLoop(_, _, _, _, _)
FuzzyLoop(conn_name, conn_address, items, j, best) ==
    IF j > Len(items) THEN best
    ELSE LET name_score == similarity(conn_name, items[j].db_name)
             addr_score == OverlapAddrScore(conn_address, items[j].db_addr)
             combined_score == RAdd(RMul(name_score, NameWeight),
                                    RMul(addr_score, AddrWeight))
         IN IF RLess(best.score, combined_score)
            THEN FuzzyLoop(conn_name, conn_address, items, j + 1,
                           [match |-> <<items[j]>>, score |-> combined_score])
            ELSE FuzzyLoop(conn_name, conn_address, items, j + 1, best)

\* mutant: "best_score >= 0.6"
FuzzyAcceptsAtLeast(best_score) == RLeq(Rat(6, 10), best_score)

\* "Consider it a match if score > 0.6"
FuzzyAccepts(best_score) == RLess(Rat(6, 10), best_score)

\* mutant: "conn_name in db_names", the name is looked up as written
ExactHitAsWritten(conn_name) == \E k \in 1..Len(db_names) : db_names[k].key = conn_name

\* "Try exact match first"
ExactHit(conn_name) == \E k \in 1..Len(db_names) : db_names[k].key = Lower(conn_name)

OverlapStep ==
    /\ script = "overlap"
    /\ pc = "start"
    /\ i < Len(connected_carparks)
    /\ LET conn_name == connected_carparks[i + 1].name
           conn_address == connected_carparks[i + 1].address
       IN IF ExactHit(conn_name)
          THEN /\ matches' = Append(matches,
                     [connected_name |-> conn_name,
                      db_name |-> DbNamesGet(Lower(conn_name)).db_name,
                      park_id |-> DbNamesGet(Lower(conn_name)).park_id,
                      match_type |-> "exact", score |-> <<>>])
               /\ UNCHANGED unmatched_connected
          ELSE LET best == FuzzyLoop(conn_name, conn_address, db_names, 1,
                                     [match |-> <<>>, score |-> Zero])
               IN IF FuzzyAccepts(best.score)
                  THEN /\ matches' = Append(matches,
                             [connected_name |-> conn_name,
                              db_name |-> best.match[1].db_name,
                              park_id |-> best.match[1].park_id,
                              match_type |-> "fuzzy", score |-> <<best.score>>])
                       /\ UNCHANGED unmatched_connected
                  ELSE /\ unmatched_connected' = Append(unmatched_connected,
                             [name |-> conn_name, address |-> conn_address,
                              best_match |-> IF best.match # <<>>
                                             THEN <<best.match[1].db_name>>
                                             ELSE <<>>,
                              score |-> best.score])
                       /\ UNCHANGED matches
    /\ i' = i + 1
    /\ UNCHANGED <<inputs, csv, text, pc, buildings, coord_matches, addr_matches,
                   polygon_matches, all_matches, report, ran>>

\* the SUMMARY block; the overlap percentage divides by len(connected_carparks)
OverlapSummary ==
    /\ script = "overlap"
    /\ pc = "start"
    /\ i = Len(connected_carparks)
    /\ IF Len(connected_carparks) = 0
       THEN pc' = "ZeroDivisionError" /\ UNCHANGED report
       ELSE /\ pc' = "done"
            /\ report' = [matched |-> Len(matches),
                          unmatched |-> Len(unmatched_connected)]
    /\ UNCHANGED <<inputs, csv, text, i, buildings, matches, unmatched_connected,
                   coord_matches, addr_matches, polygon_matches, all_matches,
                   ran>>

\* ------------------------------------------------------------------------
\* analyze-matching-methods.py
\* ------------------------------------------------------------------------
\* mutant: a carpark at exactly 100 m is not matched
MethodsWithinStrict(distance) == distance < 100

\* "distance <= 100"
MethodsWithin(distance) == distance <= 100

\* Method 1 and Method 3 leave their inner loop at the first row they match
\* ("break"): float(db_lat) raises a TypeError when a row with a NULL comes
\* before that row; region holds the points a row is matched at
RECURSIVE FloatRaisesBefore(_, _, _)
FloatRaisesBefore(region, db, j) ==
    IF j > Len(db) THEN FALSE
    ELSE IF db[j].pos = NULL THEN TRUE
    ELSE IF db[j].pos \in region THEN FALSE
    ELSE FloatRaisesBefore(region, db, j + 1)

\* the points of the rows of db with coordinates
PointsOf(db) == {db[k].pos : k \in 1..Len(db)} \ {NULL}

\* Method 1, inner loop from row j on: the first row within 100 m ("break")
RECURSIVE MethodsCoordLoop(_, _, _)
MethodsCoordLoop(cp, db, j) ==
    IF j > Len(db) THEN <<>>
    ELSE LET distance == haversine_distance(cp.pos, db[j].pos) IN
         IF MethodsWithin(distance) THEN <<db[j], distance>>
         ELSE MethodsCoordLoop(cp, db, j + 1)

\* Method 2, inner loop from row j on: "Weight: 70% address, 30% name"
RECURSIVE MethodsAddrLoop(_, _, _, _)
MethodsAddrLoop(cp, db, j, best) ==
    IF j > Len(db) THEN best
    ELSE LET addr_sim == address_similarity(cp.address, db[j].addr)
             name_sim == ratio(Lower(cp.name), Lower(db[j].name))
             combined_score == RAdd(RMul(addr_sim, Rat(7, 10)),
                                    RMul(name_sim, Rat(3, 10)))
         IN IF RLess(best.score, combined_score)
            THEN MethodsAddrLoop(cp, db, j + 1,
                                 [match |-> <<db[j]>>, score |-> combined_score])
            ELSE MethodsAddrLoop(cp, db, j + 1, best)

\* "best_score >= 0.7"
MethodsAddrAccepts(best_score) == RLeq(Rat(7, 10), best_score)

\* building one of the features raises: the exception leaves the try block
BuildRaises(features) == \E k \in 1..Len(features) : features[k].geom = "Invalid"

\* the buildings list built from the Polygon features of the file
MethodsBuildings(features) ==
    LET polys == SelectSeq(features, LAMBDA f : f.geom = "Polygon") IN
    [k \in 1..Len(polys) |-> [id |-> polys[k].id, polygon |-> polys[k].polygon]]

\* mutant: the loop over the buildings has no break, the last building that
\* contains the point is kept
RECURSIVE MethodsConnBuildingLast(_, _, _)
MethodsConnBuildingLast(point, blds, k) ==
    IF k > Len(blds) THEN <<>>
    ELSE LET later == MethodsConnBuildingLast(point, blds, k + 1) IN
         IF later # <<>> THEN later
         ELSE IF point \in blds[k].polygon THEN <<blds[k]>>
         ELSE <<>>

\* Method 3: the first building that contains the point, <<>> for None
RECURSIVE MethodsConnBuilding(_, _, _)
MethodsConnBuilding(point, blds, k) ==
    IF k > Len(blds) THEN <<>>
    ELSE IF point \in blds[k].polygon THEN <<blds[k]>>
    ELSE MethodsConnBuilding(point, blds, k + 1)

\* Method 3: the first row of db_carparks inside the building
RECURSIVE MethodsPolygonLoop(_, _, _)
MethodsPolygonLoop(bldg, db, j) ==
    IF j > Len(db) THEN <<>>
    ELSE IF db[j].pos \in bldg.polygon THEN <<db[j]>>
    ELSE MethodsPolygonLoop(bldg, db, j + 1)

MethodsCoordStep ==
    /\ script = "methods"
    /\ pc = "start"
    /\ i < Len(connected_carparks)
    /\ LET cp == connected_carparks[i + 1]
           hit == MethodsCoordLoop(cp, db_carparks, 1)
       IN IF FloatRaisesBefore({q \in PointsOf(db_carparks) :
                                  MethodsWithin(haversine_distance(cp.pos, q))},
                               db_carparks, 1)
          THEN pc' = "TypeError" /\ UNCHANGED <<i, coord_matches>>
          ELSE /\ coord_matches' =
                    IF hit # <<>>
                    THEN Append(coord_matches,
                                [connected_name |-> cp.name, db_name |-> hit[1].name,
                                 park_id |-> hit[1].park_id, distance_m |-> hit[2],
                                 method |-> "coordinate"])
                    ELSE coord_matches
               /\ i' = i + 1
               /\ UNCHANGED pc
    /\ UNCHANGED <<inputs, csv, text, buildings, matches, unmatched_connected,
                   addr_matches, polygon_matches, all_matches, report, ran>>

\* "Matches" and "Overlap" after Method 1: divides by len(connected_carparks)
MethodsCoordReport ==
    /\ script = "methods"
    /\ pc = "start"
    /\ i = Len(connected_carparks)
    /\ pc' = IF Len(connected_carparks) = 0 THEN "ZeroDivisionError" ELSE "m2"
    /\ i' = 0
    /\ UNCHANGED <<inputs, csv, text, buildings, matches, unmatched_connected,
                   coord_matches, addr_matches, polygon_matches, all_matches,
                   report,
                   ran>>

MethodsAddrStep ==
    /\ script = "methods"
    /\ pc = "m2"
    /\ i < Len(connected_carparks)
    /\ LET cp == connected_carparks[i + 1]
           best == MethodsAddrLoop(cp, db_carparks, 1,
                                   [match |-> <<>>, score |-> Zero])
       IN addr_matches' =
            IF MethodsAddrAccepts(best.score)
            THEN Append(addr_matches,
                        [connected_name |-> cp.name, connected_addr |-> cp.address,
                         db_name |-> best.match[1].name,
                         db_addr |-> best.match[1].addr,
                         park_id |-> best.match[1].park_id,
                         score |-> best.score, method |-> "address"])
            ELSE addr_matches
    /\ i' = i + 1
    /\ UNCHANGED <<inputs, csv, text, pc, buildings, matches, unmatched_connected,
                   coord_matches, polygon_matches, all_matches, report, ran>>

\* "Matches", "Overlap" and the samples after Method 2
MethodsAddrReport ==
    /\ script = "methods"
    /\ pc = "m2"
    /\ i = Len(connected_carparks)
    /\ pc' = "m3load"
    /\ i' = 0
    /\ UNCHANGED <<inputs, csv, text, buildings, matches, unmatched_connected,
                   coord_matches, addr_matches, polygon_matches, all_matches,
                   report,
                   ran>>

\* the head of the try block: open the file, build the buildings, then
\* "polygon_matches = []".  A missing file, or a feature that cannot be
\* built, is caught by an except clause, which leaves polygon_matches
\* unbound (<<>>; bound it is <<list>>).
MethodsLoadBuildings ==
    /\ script = "methods"
    /\ pc = "m3load"
    /\ IF building_file = <<>> \/ BuildRaises(building_file[1])
       THEN /\ pc' = "summary"
            /\ UNCHANGED <<buildings, polygon_matches>>
       ELSE /\ buildings' = MethodsBuildings(building_file[1])
            /\ polygon_matches' = << <<>> >>
            /\ pc' = "m3"
    /\ UNCHANGED <<inputs, csv, text, i, matches, unmatched_connected, coord_matches,
                   addr_matches, all_matches, report, ran>>

\* an exception in the loop is caught by "except Exception", which goes on
\* to the summary with the polygon matches found so far
MethodsPolygonStep ==
    /\ script = "methods"
    /\ pc = "m3"
    /\ i < Len(connected_carparks)
    /\ LET cp == connected_carparks[i + 1]
           conn_building == MethodsConnBuilding(cp.pos, buildings, 1)
           hit == IF conn_building # <<>>
                  THEN MethodsPolygonLoop(conn_building[1], db_carparks, 1)
                  ELSE <<>>
       IN IF /\ conn_building # <<>>
             /\ FloatRaisesBefore(conn_building[1].polygon, db_carparks, 1)
          THEN pc' = "summary" /\ UNCHANGED <<i, polygon_matches>>
          ELSE /\ polygon_matches' =
                    IF hit # <<>>
                    THEN << Append(polygon_matches[1],
                                   [connected_name |-> cp.name,
                                    db_name |-> hit[1].name,
                                    park_id |-> hit[1].park_id,
                                    building_id |-> conn_building[1].id,
                                    method |-> "polygon"]) >>
                    ELSE polygon_matches
               /\ i' = i + 1
               /\ UNCHANGED pc
    /\ UNCHANGED <<inputs, csv, text, buildings, matches, unmatched_connected,
                   coord_matches, addr_matches, all_matches, report, ran>>

\* the tail of the try block: counts and samples of the polygon matches
MethodsPolygonReport ==
    /\ script = "methods"
    /\ pc = "m3"
    /\ i = Len(connected_carparks)
    /\ pc' = "summary"
    /\ UNCHANGED <<inputs, csv, text, i, buildings, matches, unmatched_connected,
                   coord_matches, addr_matches, polygon_matches, all_matches,
                   report,
                   ran>>

ParkIds(ms) == {ms[k].park_id : k \in 1..Len(ms)}

\* SUMMARY COMPARISON and "Method agreement"; len(polygon_matches) raises a
\* NameError when the try block never bound polygon_matches
MethodsSummary ==
    /\ script = "methods"
    /\ pc = "summary"
    /\ IF polygon_matches = <<>>
       THEN pc' = "NameError" /\ UNCHANGED report
       ELSE LET coord_ids == ParkIds(coord_matches)
                addr_ids == ParkIds(addr_matches)
                poly_ids == ParkIds(polygon_matches[1])
            IN /\ pc' = "done"
               /\ report' =
                    [coord |-> Len(coord_matches),
                     addr |-> Len(addr_matches),
                     poly |-> Len(polygon_matches[1]),
                     coord_addr |-> Cardinality(coord_ids \cap addr_ids),
                     coord_poly |-> Cardinality(coord_ids \cap poly_ids),
                     addr_poly |-> Cardinality(addr_ids \cap poly_ids),
                     all_three |-> Cardinality(coord_ids \cap addr_ids \cap poly_ids)]
    /\ UNCHANGED <<inputs, csv, text, i, buildings, matches, unmatched_connected,
                   coord_matches, addr_matches, polygon_matches, all_matches,
                   ran>>

\* ------------------------------------------------------------------------
\* analyze-unique-aggregate-matches.py
\* ------------------------------------------------------------------------
\* "distance <= 100"
AggWithin(distance) == distance <= 100

\* Method 1, inner loop from row j on: the first row within 100 m ("break")
RECURSIVE AggCoordLoop(_, _, _)
AggCoordLoop(cp, db, j) ==
    IF j > Len(db) THEN <<>>
    ELSE LET distance == haversine_distance(cp.pos, db[j].pos) IN
         IF AggWithin(distance) THEN <<db[j], distance>>
         ELSE AggCoordLoop(cp, db, j + 1)

\* Method 2, inner loop from row j on
RECURSIVE AggAddrLoop(_, _, _, _)
AggAddrLoop(cp, db, j, best) ==
    IF j > Len(db) THEN best
    ELSE LET addr_sim == address_similarity(cp.address, db[j].addr)
             name_sim == ratio(Lower(cp.name), Lower(db[j].name))
             combined_score == RAdd(RMul(addr_sim, Rat(7, 10)),
                                    RMul(name_sim, Rat(3, 10)))
         IN IF RLess(best.score, combined_score)
            THEN AggAddrLoop(cp, db, j + 1,
                             [match |-> <<db[j]>>, score |-> combined_score])
            ELSE AggAddrLoop(cp, db, j + 1, best)

\* "best_score >= 0.7"
AggAddrAccepts(best_score) == RLeq(Rat(7, 10), best_score)

\* the buildings list built from the Polygon features of the file
AggBuildings(features) ==
    LET polys == SelectSeq(features, LAMBDA f : f.geom = "Polygon") IN
    [k \in 1..Len(polys) |-> [id |-> polys[k].id, polygon |-> polys[k].polygon]]

\* Method 3: the first building that contains the point, <<>> for None
RECURSIVE AggConnBuilding(_, _, _)
AggConnBuilding(point, blds, k) ==
    IF k > Len(blds) THEN <<>>
    ELSE IF point \in blds[k].polygon THEN <<blds[k]>>
    ELSE AggConnBuilding(point, blds, k + 1)

\* Method 3: the first row of db_carparks inside the building
RECURSIVE AggPolygonLoop(_, _, _)
AggPolygonLoop(bldg, db, j) ==
    IF j > Len(db) THEN <<>>
    ELSE IF db[j].pos \in bldg.polygon THEN <<db[j]>>
    ELSE AggPolygonLoop(bldg, db, j + 1)

\* "if conn_cp['name'] not in all_matches: all_matches[...] = {...}": the
\* entry a method creates for a name that has none; evidence not yet set is <<>>
NewEntry(cp, row) ==
    [connected_name |-> cp.name, connected_addr |-> cp.address,
     db_name |-> row.name, park_id |-> row.park_id, methods |-> <<>>,
     coord_distance |-> <<>>, addr_score |-> <<>>, db_addr |-> <<>>,
     building |-> <<>>]

\* mutant: the last method to match overwrites the reported carpark
EnsureEntryLast(am, cp, row) ==
    IF cp.name \in DOMAIN am
    THEN [am EXCEPT ![cp.name].db_name = row.name, ![cp.name].park_id = row.park_id]
    ELSE am @@ (cp.name :> NewEntry(cp, row))

EnsureEntry(am, cp, row) ==
    IF cp.name \in DOMAIN am THEN am ELSE am @@ (cp.name :> NewEntry(cp, row))

\* methods.append(method)
AppendMethod(methods, method) == Append(methods, method)

\* mutant: a database carpark that an entry already reports is left out
AggCoordRecordExclusive(am, cp, db) ==
    LET free == SelectSeq(db, LAMBDA r :
                    \A name \in DOMAIN am : am[name].park_id # r.park_id)
        hit == AggCoordLoop(cp, free, 1)
    IN IF hit = <<>> THEN am
       ELSE [EnsureEntry(am, cp, hit[1]) EXCEPT
               ![cp.name].methods = AppendMethod(@, "coordinate"),
               ![cp.name].coord_distance = <<hit[2]>>]

\* Method 1 for one connected carpark
AggCoordRecord(am, cp, db) ==
    LET hit == AggCoordLoop(cp, db, 1) IN
    IF hit = <<>> THEN am
    ELSE [EnsureEntry(am, cp, hit[1]) EXCEPT
            ![cp.name].methods = AppendMethod(@, "coordinate"),
            ![cp.name].coord_distance = <<hit[2]>>]

\* mutant: the entry is created for the best row before the threshold test
AggAddrRecordEager(am, cp, db) ==
    LET best == AggAddrLoop(cp, db, 1, [match |-> <<>>, score |-> Zero]) IN
    IF best.match = <<>> THEN am
    ELSE IF ~AggAddrAccepts(best.score) THEN EnsureEntry(am, cp, best.match[1])
    ELSE [EnsureEntry(am, cp, best.match[1]) EXCEPT
            ![cp.name].methods = AppendMethod(@, "address"),
            ![cp.name].addr_score = <<best.score>>,
            ![cp.name].db_addr = <<best.match[1].addr>>]

\* Method 2 for one connected carpark
AggAddrRecord(am, cp, db) ==
    LET best == AggAddrLoop(cp, db, 1, [match |-> <<>>, score |-> Zero]) IN
    IF ~AggAddrAccepts(best.score) THEN am
    ELSE [EnsureEntry(am, cp, best.match[1]) EXCEPT
            ![cp.name].methods = AppendMethod(@, "address"),
            ![cp.name].addr_score = <<best.score>>,
            ![cp.name].db_addr = <<best.match[1].addr>>]

\* mutant: the membership test is missing, the entry is created anew
AggPolygonRecordOverwrites(am, cp, db, blds) ==
    LET conn_building == AggConnBuilding(cp.pos, blds, 1)
        hit == IF conn_building # <<>>
               THEN AggPolygonLoop(conn_building[1], db, 1)
               ELSE <<>>
    IN IF hit = <<>> THEN am
       ELSE [[name \in DOMAIN am \cup {cp.name} |->
                 IF name = cp.name THEN NewEntry(cp, hit[1]) ELSE am[name]]
             EXCEPT ![cp.name].methods = AppendMethod(@, "polygon"),
                    ![cp.name].building = <<conn_building[1].id>>]

\* mutant: a method is recorded only by the step that creates the entry
AggPolygonRecordNested(am, cp, db, blds) ==
    LET conn_building == AggConnBuilding(cp.pos, blds, 1)
        hit == IF conn_building # <<>>
               THEN AggPolygonLoop(conn_building[1], db, 1)
               ELSE <<>>
    IN IF hit = <<>> \/ cp.name \in DOMAIN am THEN am
       ELSE [EnsureEntry(am, cp, hit[1]) EXCEPT
               ![cp.name].methods = AppendMethod(@, "polygon"),
               ![cp.name].building = <<conn_building[1].id>>]

\* Method 3 for one connected carpark
AggPolygonRecord(am, cp, db, blds) ==
    LET conn_building == AggConnBuilding(cp.pos, blds, 1)
        hit == IF conn_building # <<>>
               THEN AggPolygonLoop(conn_building[1], db, 1)
               ELSE <<>>
    IN IF hit = <<>> THEN am
       ELSE [EnsureEntry(am, cp, hit[1]) EXCEPT
               ![cp.name].methods = AppendMethod(@, "polygon"),
               ![cp.name].building = <<conn_building[1].id>>]

AggCoordStep ==
    /\ script = "aggregate"
    /\ pc = "start"
    /\ i < Len(connected_carparks)
    /\ LET cp == connected_carparks[i + 1] IN
       IF FloatRaisesBefore({q \in PointsOf(db_carparks) :
                               AggWithin(haversine_distance(cp.pos, q))},
                            db_carparks, 1)
       THEN pc' = "TypeError" /\ UNCHANGED <<i, all_matches>>
       ELSE /\ all_matches' = AggCoordRecord(all_matches, cp, db_carparks)
            /\ i' = i + 1
            /\ UNCHANGED pc
    /\ UNCHANGED <<inputs, csv, text, buildings, matches, unmatched_connected,
                   coord_matches, addr_matches, polygon_matches, report,
                   ran>>

\* "Running Method 2"
AggCoordDone ==
    /\ script = "aggregate"
    /\ pc = "start"
    /\ i = Len(connected_carparks)
    /\ pc' = "m2"
    /\ i' = 0
    /\ UNCHANGED <<inputs, csv, text, buildings, matches, unmatched_connected,
                   coord_matches, addr_matches, polygon_matches, all_matches,
                   report, ran>>

AggAddrStep ==
    /\ script = "aggregate"
    /\ pc = "m2"
    /\ i < Len(connected_carparks)
    /\ all_matches' = AggAddrRecord(all_matches, connected_carparks[i + 1],
                                    db_carparks)
    /\ i' = i + 1
    /\ UNCHANGED <<inputs, csv, text, pc, buildings, matches, unmatched_connected,
                   coord_matches, addr_matches, polygon_matches, report,
                   ran>>

\* "Running Method 3"
AggAddrDone ==
    /\ script = "aggregate"
    /\ pc = "m2"
    /\ i = Len(connected_carparks)
    /\ pc' = "m3load"
    /\ i' = 0
    /\ UNCHANGED <<inputs, csv, text, buildings, matches, unmatched_connected,
                   coord_matches, addr_matches, polygon_matches, all_matches,
                   report, ran>>

\* the head of the try block: open the file and build the buildings; a
\* missing file, or a feature that cannot be built, is caught by the except
\* clause, which goes on to the report
AggLoadBuildings ==
    /\ script = "aggregate"
    /\ pc = "m3load"
    /\ IF building_file = <<>> \/ BuildRaises(building_file[1])
       THEN pc' = "report" /\ UNCHANGED buildings
       ELSE pc' = "m3" /\ buildings' = AggBuildings(building_file[1])
    /\ UNCHANGED <<inputs, csv, text, i, matches, unmatched_connected, coord_matches,
                   addr_matches, polygon_matches, all_matches, report,
                   ran>>

\* an exception in the loop is caught by "except Exception", which goes on
\* to the report
AggPolygonStep ==
    /\ script = "aggregate"
    /\ pc = "m3"
    /\ i < Len(connected_carparks)
    /\ LET cp == connected_carparks[i + 1]
           conn_building == AggConnBuilding(cp.pos, buildings, 1)
       IN IF /\ conn_building # <<>>
             /\ FloatRaisesBefore(conn_building[1].polygon, db_carparks, 1)
          THEN pc' = "report" /\ UNCHANGED <<i, all_matches>>
          ELSE /\ all_matches' = AggPolygonRecord(all_matches, cp, db_carparks,
                                                  buildings)
               /\ i' = i + 1
               /\ UNCHANGED pc
    /\ UNCHANGED <<inputs, csv, text, buildings, matches, unmatched_connected,
                   coord_matches, addr_matches, polygon_matches, report,
                   ran>>

AggPolygonDone ==
    /\ script = "aggregate"
    /\ pc = "m3"
    /\ i = Len(connected_carparks)
    /\ pc' = "report"
    /\ UNCHANGED <<inputs, csv, text, i, buildings, matches, unmatched_connected,
                   coord_matches, addr_matches, polygon_matches, all_matches,
                   report, ran>>

Range(f) == {f[x] : x \in DOMAIN f}

\* method_counts: number of entries per len(match['methods'])
MethodCounts(am) ==
    [n \in {Len(am[k].methods) : k \in DOMAIN am} |->
        Cardinality({k \in DOMAIN am : Len(am[k].methods) = n})]

\* method_combos: number of entries per set(match['methods'])
MethodCombos(am) ==
    [c \in {Range(am[k].methods) : k \in DOMAIN am} |->
        Cardinality({k \in DOMAIN am : Range(am[k].methods) = c})]

\* AGGREGATE UNIQUE MATCHES, the breakdowns and SUMMARY; the overlap
\* percentage divides by len(connected_carparks)
AggReport ==
    /\ script = "aggregate"
    /\ pc = "report"
    /\ IF Len(connected_carparks) = 0
       THEN pc' = "ZeroDivisionError" /\ UNCHANGED report
       ELSE /\ pc' = "done"
            /\ report' =
                 [total |-> Cardinality(DOMAIN all_matches),
                  method_counts |-> MethodCounts(all_matches),
                  method_combos |-> MethodCombos(all_matches),
                  coordinate |-> Cardinality({k \in DOMAIN all_matches :
                                   "coordinate" \in Range(all_matches[k].methods)}),
                  address |-> Cardinality({k \in DOMAIN all_matches :
                                   "address" \in Range(all_matches[k].methods)}),
                  polygon |-> Cardinality({k \in DOMAIN all_matches :
                                   "polygon" \in Range(all_matches[k].methods)}),
                  unmatched |-> Len(connected_carparks)
                                  - Cardinality(DOMAIN all_matches)]
    /\ UNCHANGED <<inputs, csv, text, i, buildings, matches, unmatched_connected,
                   coord_matches, addr_matches, polygon_matches, all_matches,
                   ran>>

\* ------------------------------------------------------------------------
\* analyze-connected-geojson-overlap.py
\* ------------------------------------------------------------------------
\* connected_buildings: the Polygon features of connected-carparks.geojson
connected_buildings(features) ==
    LET polys == SelectSeq(features, LAMBDA f : f.geom = "Polygon") IN
    [k \in 1..Len(polys) |-> [place |-> polys[k].place, polygon |-> polys[k].polygon]]

\* the first building that contains the point, <<>> when none does ("break")
RECURSIVE GeojsonBuildingOf(_, _, _)
GeojsonBuildingOf(point, blds, k) ==
    IF k > Len(blds) THEN <<>>
    ELSE IF point \in blds[k].polygon THEN <<blds[k]>>
    ELSE GeojsonBuildingOf(point, blds, k + 1)

\* "Convert GeoJSON features to shapely polygons"
GeojsonLoad ==
    /\ script = "geojson"
    /\ pc = "start"
    /\ buildings' = connected_buildings(building_file[1])
    /\ pc' = "scan"
    /\ UNCHANGED <<inputs, csv, text, i, matches, unmatched_connected, coord_matches,
                   addr_matches, polygon_matches, all_matches, report, ran>>

\* one database carpark: matched to the first building that contains it
GeojsonStep ==
    /\ script = "geojson"
    /\ pc = "scan"
    /\ i < Len(db_carparks)
    /\ LET db_cp == db_carparks[i + 1]
           building == GeojsonBuildingOf(db_cp.pos, buildings, 1)
       IN matches' =
            IF building # <<>>
            THEN Append(matches, [park_id |-> db_cp.park_id, db_name |-> db_cp.name,
                                  building_name |-> building[1].place])
            ELSE matches
    /\ i' = i + 1
    /\ UNCHANGED <<inputs, csv, text, pc, buildings, unmatched_connected, coord_matches,
                   addr_matches, polygon_matches, all_matches, report, ran>>

\* RESULTS: the overlap percentage divides by len(db_carparks)
GeojsonResults ==
    /\ script = "geojson"
    /\ pc = "scan"
    /\ i = Len(db_carparks)
    /\ pc' = IF Len(db_carparks) = 0 THEN "ZeroDivisionError" ELSE "summary"
    /\ UNCHANGED <<inputs, csv, text, i, buildings, matches, unmatched_connected,
                   coord_matches, addr_matches, polygon_matches, all_matches,
                   report, ran>>

\* SUMMARY: buildings_with_matches is bound only in the "if len(matches) > 0"
\* branch, and the last line evaluates len(buildings_with_matches) whatever
\* len(matches) is
GeojsonSummary ==
    /\ script = "geojson"
    /\ pc = "summary"
    /\ IF Len(matches) = 0
       THEN pc' = "NameError" /\ UNCHANGED report
       ELSE /\ pc' = "done"
            /\ report' =
                 [buildings |-> Len(buildings),
                  inside |-> Len(matches),
                  buildings_with_matches |->
                      Cardinality({matches[k].building_name : k \in 1..Len(matches)})]
    /\ UNCHANGED <<inputs, csv, text, i, buildings, matches, unmatched_connected,
                   coord_matches, addr_matches, polygon_matches, all_matches,
                   ran>>

\* ------------------------------------------------------------------------
\* Reading connected-carparks.csv (coords, methods and aggregate scripts)
\* ------------------------------------------------------------------------
\* before the loader runs: nothing read yet, and database rows that may
\* lack coordinates
InitLoad ==
    /\ script \in {"coords", "methods", "aggregate"}
    /\ pc = "load"
    /\ i = 0
    /\ db_carparks \in DbResultsOf(DbPoolNull)
    /\ connected_carparks = <<>>
    /\ unread \in SeqsUpTo(CsvPool, MaxExt)
    /\ building_file \in (IF script = "coords" THEN {<<>>} ELSE BuildingFiles)
    /\ buildings = <<>>
    /\ matches = <<>>
    /\ unmatched_connected = <<>>
    /\ coord_matches = <<>>
    /\ addr_matches = <<>>
    /\ polygon_matches = <<>>
    /\ all_matches = <<>>
    /\ report = <<>>
    /\ ran = <<>>
    /\ warnings = 0
    /\ addr = <<>>
    /\ normalized = <<>>
    /\ pair = <<>>
    /\ addr_parts = <<>>

\* one row of the reader: float(row['Latitude']) gives the coordinate,
\* raises a ValueError, which the except clause catches (the standalone
\* coordinate script prints a warning, the others pass), or raises a
\* TypeError on None, which it does not catch
LoadRow ==
    /\ pc = "load"
    /\ unread # <<>>
    /\ LET row == Head(unread) IN
       CASE row.Latitude.kind = "number" ->
              /\ connected_carparks' =
                   Append(connected_carparks,
                          [name |-> row.name, address |-> row.address,
                           pos |-> row.Latitude.value])
              /\ unread' = Tail(unread)
              /\ UNCHANGED <<pc, warnings>>
         [] row.Latitude.kind = "text" ->
              /\ warnings' = IF script = "coords" THEN warnings + 1 ELSE warnings
              /\ unread' = Tail(unread)
              /\ UNCHANGED <<pc, connected_carparks>>
         [] row.Latitude.kind = "none" ->
              /\ pc' = "TypeError"
              /\ UNCHANGED <<connected_carparks, unread, warnings>>
    /\ UNCHANGED <<script, db_carparks, building_file, text, i, buildings,
                   matches, unmatched_connected, coord_matches, addr_matches,
                   polygon_matches, all_matches, report, ran>>

\* the end of the file: on to the matching
LoadDone ==
    /\ pc = "load"
    /\ unread = <<>>
    /\ pc' = "start"
    /\ UNCHANGED <<inputs, csv, text, i, buildings, matches, unmatched_connected,
                   coord_matches, addr_matches, polygon_matches, all_matches,
                   report, ran>>

\* ------------------------------------------------------------------------
\* analyze-connected-overlap.py with a connected carpark whose address is
\* the address of a database carpark of another name
\* ------------------------------------------------------------------------
ExtPoolOverlap ==
    ExtPool \cup { [name |-> abcd, address |-> rd, pos |-> 100] }

InitOverlap ==
    /\ script = "overlap"
    /\ pc = "start"
    /\ i = 0
    /\ db_carparks \in DbResults
    /\ connected_carparks \in SeqsUpTo(ExtPoolOverlap, MaxExt)
    /\ building_file = <<>>
    /\ buildings = <<>>
    /\ matches = <<>>
    /\ unmatched_connected = <<>>
    /\ coord_matches = <<>>
    /\ addr_matches = <<>>
    /\ polygon_matches = <<>>
    /\ all_matches = <<>>
    /\ report = <<>>
    /\ ran = <<>>
    /\ unread = <<>>
    /\ warnings = 0
    /\ addr = <<>>
    /\ normalized = <<>>
    /\ pair = <<>>
    /\ addr_parts = <<>>

\* ------------------------------------------------------------------------
\* normalize_address on its own
\* ------------------------------------------------------------------------
InitNorm ==
    /\ script = "methods"
    /\ pc = "normalize"
    /\ i = 0
    /\ db_carparks = <<>>
    /\ connected_carparks = <<>>
    /\ building_file = <<>>
    /\ buildings = <<>>
    /\ matches = <<>>
    /\ unmatched_connected = <<>>
    /\ coord_matches = <<>>
    /\ addr_matches = <<>>
    /\ polygon_matches = <<>>
    /\ all_matches = <<>>
    /\ report = <<>>
    /\ ran = <<>>
    /\ unread = <<>>
    /\ warnings = 0
    /\ addr \in SeqsUpTo(AddrAlphabet, MaxAddrLen)
    /\ normalized = <<>>
    /\ pair = <<>>
    /\ addr_parts = <<>>

\* normalize_address applied to the address, then to its own result
Normalize ==
    /\ pc = "normalize"
    /\ Len(normalized) < 2
    /\ normalized' = Append(normalized,
                            normalize_address(IF normalized = <<>> THEN addr
                                              ELSE normalized[Len(normalized)]))
    /\ UNCHANGED <<inputs, csv, addr, pair, addr_parts, pc, i, buildings,
                   matches, unmatched_connected, coord_matches, addr_matches,
                   polygon_matches, all_matches, report, ran>>

\* ------------------------------------------------------------------------
\* The address component of the two lexical variants on its own
\* ------------------------------------------------------------------------
\* an address is missing (<<>>: None or '') or a text of these characters
PairAlphabet == {"r", "d"}

InitPair ==
    /\ script = "methods"
    /\ pc = "pair"
    /\ i = 0
    /\ db_carparks = <<>>
    /\ connected_carparks = <<>>
    /\ building_file = <<>>
    /\ buildings = <<>>
    /\ matches = <<>>
    /\ unmatched_connected = <<>>
    /\ coord_matches = <<>>
    /\ addr_matches = <<>>
    /\ polygon_matches = <<>>
    /\ all_matches = <<>>
    /\ report = <<>>
    /\ ran = <<>>
    /\ unread = <<>>
    /\ warnings = 0
    /\ addr = <<>>
    /\ normalized = <<>>
    /\ pair \in [conn : SeqsUpTo(PairAlphabet, MaxPairLen),
                  db : SeqsUpTo(PairAlphabet, MaxPairLen)]
    /\ addr_parts = [name_led |-> <<>>, addr_led |-> <<>>]

\* addr_score of the name-led variant for the pair
ScoreNameLed ==
    /\ pc = "pair"
    /\ addr_parts.name_led = <<>>
    /\ addr_parts' = [addr_parts EXCEPT
                        !.name_led = <<OverlapAddrScore(pair.conn, pair.db)>>]
    /\ UNCHANGED <<inputs, csv, addr, normalized, pair, pc, i, buildings,
                   matches, unmatched_connected, coord_matches, addr_matches,
                   polygon_matches, all_matches, report, ran>>

\* addr_sim of the address-led variant for the pair
ScoreAddrLed ==
    /\ pc = "pair"
    /\ addr_parts.addr_led = <<>>
    /\ addr_parts' = [addr_parts EXCEPT
                        !.addr_led = <<address_similarity(pair.conn, pair.db)>>]
    /\ UNCHANGED <<inputs, csv, addr, normalized, pair, pc, i, buildings,
                   matches, unmatched_connected, coord_matches, addr_matches,
                   polygon_matches, all_matches, report, ran>>

\* ------------------------------------------------------------------------
\* The aggregate script with its three method loops run one after another
\* in any order
\* ------------------------------------------------------------------------
\* the body of the loop of method m for one connected carpark
LoopBody(m, am, cp, db, blds) ==
    CASE m = "coordinate" -> AggCoordRecord(am, cp, db)
      [] m = "address" -> AggAddrRecord(am, cp, db)
      [] m = "polygon" -> AggPolygonRecord(am, cp, db, blds)

\* the loop of method m over the connected carparks from row k on
RECURSIVE LoopFrom(_, _, _, _, _, _)
LoopFrom(m, am, cps, k, db, blds) ==
    IF k > Len(cps) THEN am
    ELSE LoopFrom(m, LoopBody(m, am, cps[k], db, blds), cps, k + 1, db, blds)

\* the buildings are loaded before the first loop; without the file the
\* containment loop has no building to look at
InitAnyOrder ==
    /\ script = "aggregate"
    /\ pc = "loops"
    /\ i = 0
    /\ db_carparks \in DbResults
    /\ connected_carparks \in SeqsUpTo(ExtPool, MaxExt)
    /\ building_file \in BuildingFiles
    /\ buildings = IF building_file = <<>> \/ BuildRaises(building_file[1])
                   THEN <<>>
                   ELSE AggBuildings(building_file[1])
    /\ matches = <<>>
    /\ unmatched_connected = <<>>
    /\ coord_matches = <<>>
    /\ addr_matches = <<>>
    /\ polygon_matches = <<>>
    /\ all_matches = <<>>
    /\ report = <<>>
    /\ ran = <<>>
    /\ unread = <<>>
    /\ warnings = 0
    /\ addr = <<>>
    /\ normalized = <<>>
    /\ pair = <<>>
    /\ addr_parts = <<>>

\* one whole method loop, of a method not run yet
RunLoop(m) ==
    /\ script = "aggregate"
    /\ pc = "loops"
    /\ \A k \in 1..Len(ran) : ran[k] # m
    /\ all_matches' = LoopFrom(m, all_matches, connected_carparks, 1,
                               db_carparks, buildings)
    /\ ran' = Append(ran, m)
    /\ UNCHANGED <<inputs, csv, text, pc, i, buildings, matches, unmatched_connected,
                   coord_matches, addr_matches, polygon_matches, report>>

\* all three loops are over: on to the report
LoopsDone ==
    /\ script = "aggregate"
    /\ pc = "loops"
    /\ Len(ran) = 3
    /\ pc' = "report"
    /\ UNCHANGED <<inputs, csv, text, i, buildings, matches, unmatched_connected,
                   coord_matches, addr_matches, polygon_matches, all_matches,
                   report, ran>>

\* ------------------------------------------------------------------------
\* What each strategy decides for one connected carpark, stated over the
\* whole of db_carparks (used by the properties below, not by the actions)
\* ------------------------------------------------------------------------
Rows == 1..Len(db_carparks)

Recs == 1..Len(connected_carparks)

DistTo(cp, j) == haversine_distance(cp.pos, db_carparks[j].pos)

\* rows within the proximity threshold of 100 m
NearRows(cp) == {j \in Rows : DistTo(cp, j) <= 100}

\* rows at the minimum distance over the whole collection
NearestRows(cp) == {j \in Rows : \A k \in Rows : DistTo(cp, j) <= DistTo(cp, k)}

\* address-led combined score: 0.7 address + 0.3 name
AddrLedScore(cp, j) ==
    RAdd(RMul(address_similarity(cp.address, db_carparks[j].addr), Rat(7, 10)),
         RMul(ratio(Lower(cp.name), Lower(db_carparks[j].name)), Rat(3, 10)))

\* <<row, address-led score>> for every row
AddrScores(cp) == {<<j, AddrLedScore(cp, j)>> : j \in Rows}

\* rows with the maximum address-led score
AddrBestRows(cp) ==
    LET P == AddrScores(cp) IN
    {p[1] : p \in {q \in P : \A r \in P : RLeq(r[2], q[2])}}

\* the Polygon features of the building file
PolygonFeatures ==
    IF building_file = <<>> THEN <<>>
    ELSE SelectSeq(building_file[1], LAMBDA f : f.geom = "Polygon")

\* the footprints in use: none when the building file could not be read or
\* one of its features could not be built
Footprints ==
    IF building_file = <<>> THEN <<>>
    ELSE IF \E k \in 1..Len(building_file[1]) : building_file[1][k].geom = "Invalid"
         THEN <<>>
         ELSE PolygonFeatures

\* footprints that contain a point
Containing(point) == {k \in 1..Len(Footprints) : point \in Footprints[k].polygon}

First(S) == CHOOSE x \in S : \A y \in S : x <= y

\* rows inside the first footprint that contains the connected carpark
SameFootprintRows(cp) ==
    IF Containing(cp.pos) = {} THEN {}
    ELSE {j \in Rows :
            db_carparks[j].pos \in Footprints[First(Containing(cp.pos))].polygon}

\* the canonical id each strategy accepts for cp: {} or one park_id
CoordCand(cp) ==
    IF NearRows(cp) = {} THEN {} ELSE {db_carparks[First(NearRows(cp))].park_id}

AddrCand(cp) ==
    IF \E p \in AddrScores(cp) : RLeq(Rat(7, 10), p[2])
    THEN {db_carparks[First(AddrBestRows(cp))].park_id}
    ELSE {}

PolyCand(cp) ==
    IF SameFootprintRows(cp) = {} THEN {}
    ELSE {db_carparks[First(SameFootprintRows(cp))].park_id}

Cand(m, cp) ==
    CASE m = "coordinate" -> CoordCand(cp)
      [] m = "address" -> AddrCand(cp)
      [] m = "polygon" -> PolyCand(cp)

\* strategy m accepts a candidate for cp
Accepts(m, cp) ==
    CASE m = "coordinate" -> NearRows(cp) # {}
      [] m = "address" -> \E j \in Rows : RLeq(Rat(7, 10), AddrLedScore(cp, j))
      [] m = "polygon" -> SameFootprintRows(cp) # {}

\* the strategies that accept a candidate for cp
Supporting(cp) == {m \in Methods : Accepts(m, cp)}

AggDone == script = "aggregate" /\ pc = "done"

\* C1: fusion accounts for each connected carpark exactly once: the number
\* of fused entries is the number of connected carparks some strategy
\* accepted, and the reported unmatched count is the number of connected
\* carparks no strategy accepted (collections with shared names included).
C1_EachRecordOnce ==
    AggDone =>
      /\ report.total
           = Cardinality({k \in Recs : Supporting(connected_carparks[k]) # {}})
      /\ report.unmatched
           = Cardinality({k \in Recs : Supporting(connected_carparks[k]) = {}})


\* the connected carpark is the only row with its name
NameUnique(k) ==
    \A h \in Recs : connected_carparks[h].name = connected_carparks[k].name => h = k

TheId(S) == CHOOSE x \in S : TRUE

\* strategies endorsing canonical id c for cp
Endorsers(cp, c) == {m \in Methods : Cand(m, cp) = {c}}

\* the conflict policy of the design: the id endorsed by the most
\* strategies, ties broken by containment > proximity > lexical
Priority(m) == CASE m = "polygon" -> 3 [] m = "coordinate" -> 2 [] m = "address" -> 1

Strongest(S) == CHOOSE m \in S : \A n \in S : Priority(n) <= Priority(m)

PolicyWinner(cp) ==
    LET ids == UNION {Cand(m, cp) : m \in Methods}
        most == {c \in ids : \A e \in ids :
                    Cardinality(Endorsers(cp, e)) <= Cardinality(Endorsers(cp, c))}
    IN CHOOSE c \in most : \A e \in most :
          Priority(Strongest(Endorsers(cp, e))) <= Priority(Strongest(Endorsers(cp, c)))

\* C2 (as claimed): when the strategies accept different canonical ids for
\* a connected carpark, the fused id is the one endorsed by the most
\* strategies, ties broken by containment > proximity > lexical.  Stated
\* for carparks whose name no other row carries.
C2_MajorityThenPriority ==
    AggDone =>
      \A k \in Recs :
         LET cp == connected_carparks[k] IN
         (NameUnique(k) /\ Supporting(cp) # {}) =>
            /\ cp.name \in DOMAIN all_matches
            /\ all_matches[cp.name].park_id = PolicyWinner(cp)

\* the order in which the script runs the strategies
RunOrder == <<"coordinate", "address", "polygon">>

\* <<r, k>>: the r-th strategy of the run order accepts a candidate for row
\* k, which carries the given name
Writers(name) ==
    {w \in (1..3) \X Recs :
        /\ connected_carparks[w[2]].name = name
        /\ Accepts(RunOrder[w[1]], connected_carparks[w[2]])}

FirstWriter(name) ==
    CHOOSE w \in Writers(name) : \A v \in Writers(name) :
        w[1] < v[1] \/ (w[1] = v[1] /\ w[2] <= v[2])

\* C2 (amended): the fused id of an entry is the candidate of the first
\* strategy, in the run order proximity, lexical, containment, that accepted
\* one for a row with that name (the first such row in collection order),
\* whatever the later strategies endorse; so proximity wins over lexical
\* when containment abstains.
C2_FirstWriterWins ==
    AggDone =>
      /\ DOMAIN all_matches
           = {connected_carparks[k].name : k \in {h \in Recs :
                 Supporting(connected_carparks[h]) # {}}}
      /\ \A name \in DOMAIN all_matches :
            LET w == FirstWriter(name) IN
            all_matches[name].park_id
               = TheId(Cand(RunOrder[w[1]], connected_carparks[w[2]]))

\* C2 witness: lexical and containment endorse one id, proximity another,
\* and the fused id is proximity's
C2_Witness ==
    /\ AggDone
    /\ \E k \in Recs :
          LET cp == connected_carparks[k] IN
          /\ NameUnique(k)
          /\ CoordCand(cp) # {}
          /\ AddrCand(cp) # {}
          /\ AddrCand(cp) = PolyCand(cp)
          /\ AddrCand(cp) # CoordCand(cp)
          /\ all_matches[cp.name].park_id = TheId(CoordCand(cp))

\* at least two strategies accepted the same canonical id for a row with
\* this name
Agreed(name) ==
    \E k \in Recs : \E m, n \in Methods :
        /\ connected_carparks[k].name = name
        /\ m # n
        /\ Cand(m, connected_carparks[k]) # {}
        /\ Cand(m, connected_carparks[k]) = Cand(n, connected_carparks[k])

AllNamesUnique == \A k \in Recs : NameUnique(k)

\* C3: an entry is counted under "2 methods" or more in the breakdown by
\* number of methods agreeing only if at least two strategies accepted the
\* same canonical id for it.  Stated for collections without shared names.
C3_AgreementMeansSameId ==
    (AggDone /\ AllNamesUnique) =>
      \A n \in DOMAIN report.method_counts :
         n >= 2 =>
           \A name \in DOMAIN all_matches :
              Len(all_matches[name].methods) = n => Agreed(name)

\* strategy m has finished row k of connected_carparks
Processed(m, k) ==
    /\ script = "aggregate"
    /\ pc = "loops" => \E h \in 1..Len(ran) : ran[h] = m
    /\ CASE m = "coordinate" -> pc # "start" \/ k <= i
         [] m = "address" -> pc \notin {"start", "m2"} \/ (pc = "m2" /\ k <= i)
         [] m = "polygon" -> pc \notin {"start", "m2", "m3load", "m3"}
                               \/ (pc = "m3" /\ k <= i)

\* C4: in every state of the accumulator an entry exists exactly for the
\* names some strategy has accepted so far, and no entry has an empty
\* methods list.
C4_EntryIffSupported ==
    script = "aggregate" =>
      /\ \A name \in DOMAIN all_matches : all_matches[name].methods # <<>>
      /\ \A k \in Recs : \A m \in Methods :
            (Processed(m, k) /\ Accepts(m, connected_carparks[k]))
               => /\ connected_carparks[k].name \in DOMAIN all_matches
                  /\ m \in Range(all_matches[connected_carparks[k].name].methods)
      /\ \A name \in DOMAIN all_matches :
            \A m \in Range(all_matches[name].methods) :
               \E k \in Recs :
                  /\ connected_carparks[k].name = name
                  /\ Processed(m, k)
                  /\ Accepts(m, connected_carparks[k])

\* C4 witness: the run is over with one carpark fused and another, which no
\* strategy accepted although the lexical loop scored a best row for it,
\* without an entry
C4_Witness ==
    /\ AggDone
    /\ \E k, h \in Recs :
          /\ connected_carparks[k].name \in DOMAIN all_matches
          /\ connected_carparks[h].name \notin DOMAIN all_matches
          /\ \E j \in Rows : RLess(Zero, AddrLedScore(connected_carparks[h], j))

\* C5: the strategies recorded for an entry form a set: no strategy name
\* twice, at most 3 methods counted, and the count equals the number of
\* distinct strategy names of the entry's combination.
C5_MethodsFormASet ==
    script = "aggregate" =>
      \A name \in DOMAIN all_matches :
         LET ms == all_matches[name].methods IN
         /\ \A a, b \in 1..Len(ms) : ms[a] = ms[b] => a = b
         /\ Len(ms) <= 3
         /\ Len(ms) = Cardinality(Range(ms))


\* ------------------------------------------------------------------------
\* Properties of one step of a matching loop: the row being matched is
\* connected_carparks[i + 1]
\* ------------------------------------------------------------------------
Current == connected_carparks[i + 1]

Last(q) == q[Len(q)]

\* the step appends a match to the list
Appends(q, qNext) == Len(qNext) = Len(q) + 1

\* the steps of the proximity loops
CoordsMatching == script = "coords" /\ pc = "start" /\ i' = i + 1

MethodsCoordMatching == script = "methods" /\ pc = "start" /\ i' = i + 1

AggCoordMatching == script = "aggregate" /\ pc = "start" /\ i' = i + 1

\* occurrences of method m in the entry of a name (0 without an entry)
Occurrences(am, name, m) ==
    IF name \in DOMAIN am
    THEN Cardinality({k \in 1..Len(am[name].methods) : am[name].methods[k] = m})
    ELSE 0

\* the aggregate step records method m for the current row
Records(m) ==
    Occurrences(all_matches', Current.name, m)
       = Occurrences(all_matches, Current.name, m) + 1

\* the aggregate step creates the entry of the current row
Creates == Current.name \notin DOMAIN all_matches /\ Current.name \in DOMAIN all_matches'

\* the first, in collection order, of the rows at the minimum distance
NearestId(cp) == db_carparks[First(NearestRows(cp))].park_id

\* the first, in collection order, of the rows within 100 m
FirstNearId(cp) == db_carparks[First(NearRows(cp))].park_id

\* C6 (as claimed): in every proximity implementation the canonical record
\* reported for a matched connected carpark is the first, in collection
\* order, of those at the minimum distance over the whole collection.
C6_NearestEverywhere ==
    [][ /\ (CoordsMatching /\ Appends(matches, matches'))
             => Last(matches').park_id = NearestId(Current)
        /\ (MethodsCoordMatching /\ Appends(coord_matches, coord_matches'))
             => Last(coord_matches').park_id = NearestId(Current)
        /\ (AggCoordMatching /\ Creates)
             => all_matches'[Current.name].park_id = NearestId(Current)
      ]_vars

\* C6 (amended): the standalone coordinate script reports the first, in
\* collection order, of the rows at the minimum distance, with that
\* distance; the method-comparison script and the aggregate script report
\* the first row in collection order that lies within 100 m, with its
\* distance, which need not be the minimum.
C6_NearestOrFirstWithin ==
    [][ /\ (CoordsMatching /\ Appends(matches, matches'))
             => /\ Last(matches').park_id = NearestId(Current)
                /\ \A j \in Rows : Last(matches').distance_m <= DistTo(Current, j)
        /\ (MethodsCoordMatching /\ Appends(coord_matches, coord_matches'))
             => /\ Last(coord_matches').park_id = FirstNearId(Current)
                /\ Last(coord_matches').distance_m
                     = DistTo(Current, First(NearRows(Current)))
        /\ (AggCoordMatching /\ Records("coordinate"))
             => /\ Creates => all_matches'[Current.name].park_id = FirstNearId(Current)
                /\ all_matches'[Current.name].coord_distance
                     = <<DistTo(Current, First(NearRows(Current)))>>
      ]_vars

\* C6 witness: the standalone script has matched a carpark that has two
\* rows at the same minimum distance, and reports the first of them
C6_Witness ==
    /\ script = "coords"
    /\ i = 1
    /\ Len(matches) = 1
    /\ Cardinality(NearestRows(connected_carparks[1])) = 2
    /\ db_carparks[1].pos # db_carparks[2].pos
    /\ matches[1].park_id = db_carparks[1].park_id

\* the minimum distance to any canonical record is at most 100 m
MinWithin(cp) == \E j \in NearestRows(cp) : DistTo(cp, j) <= 100

\* C7: every proximity implementation produces a candidate for a connected
\* carpark exactly when the minimum distance to any canonical record is at
\* most 100 m, so all of them match the same connected carparks.
C7_ProximityIffWithin100 ==
    [][ /\ CoordsMatching
             => /\ Appends(matches, matches') <=> MinWithin(Current)
                /\ Appends(unmatched_connected, unmatched_connected')
                     <=> ~MinWithin(Current)
        /\ MethodsCoordMatching
             => /\ Appends(coord_matches, coord_matches') <=> MinWithin(Current)
                /\ ~MinWithin(Current) => coord_matches' = coord_matches
        /\ AggCoordMatching
             => /\ Records("coordinate") <=> MinWithin(Current)
                /\ ~MinWithin(Current) => all_matches' = all_matches
      ]_vars

\* C7 witness: the method-comparison script has matched a carpark whose
\* nearest canonical record is exactly 100 m away
C7_Witness ==
    /\ script = "methods"
    /\ pc = "start"
    /\ i = 1
    /\ \A j \in Rows : DistTo(connected_carparks[1], j) >= 100
    /\ Len(coord_matches) = 1
    /\ coord_matches[1].distance_m = 100


\* the steps of the lexical loops
OverlapMatching == script = "overlap" /\ pc = "start" /\ i' = i + 1

MethodsAddrMatching == script = "methods" /\ pc = "m2" /\ i' = i + 1

AggAddrMatching == script = "aggregate" /\ pc = "m2" /\ i' = i + 1

\* name-led combined score: 0.7 name + 0.3 address, the address counting
\* only when both records have one
NameLedScore(cp, j) ==
    RAdd(RMul(similarity(cp.name, db_carparks[j].name), Rat(7, 10)),
         RMul(IF cp.address # <<>> /\ db_carparks[j].addr # <<>>
              THEN similarity(cp.address, db_carparks[j].addr)
              ELSE Zero,
              Rat(3, 10)))

\* the rows kept in the name index: for each lower-cased name the last row
IndexRows ==
    {j \in Rows : \A k \in Rows :
        Lower(db_carparks[k].name) = Lower(db_carparks[j].name) => k <= j}

\* C8 (as claimed): the lexical strategy accepts a connected carpark exactly
\* when the maximum combined score is greater than or equal to the
\* threshold of its variant: 0.6 name-led, 0.7 address-led.
C8_AcceptsAtThreshold ==
    [][ /\ OverlapMatching
             => (Appends(matches, matches')
                   <=> \E j \in Rows : RLeq(Rat(6, 10), NameLedScore(Current, j)))
        /\ MethodsAddrMatching
             => (Appends(addr_matches, addr_matches')
                   <=> \E j \in Rows : RLeq(Rat(7, 10), AddrLedScore(Current, j)))
        /\ AggAddrMatching
             => (Records("address")
                   <=> \E j \in Rows : RLeq(Rat(7, 10), AddrLedScore(Current, j)))
      ]_vars

\* C8 (amended): the address-led variant accepts exactly when the maximum
\* combined score is greater than or equal to 0.7; the name-led variant
\* accepts exactly when the maximum combined score over the rows of the
\* name index is strictly greater than 0.6, so a maximum of exactly 0.6 is
\* rejected.
C8_StrictForNameLed ==
    [][ /\ OverlapMatching
             => /\ Appends(matches, matches')
                     <=> \E j \in IndexRows : RLess(Rat(6, 10), NameLedScore(Current, j))
                /\ Appends(unmatched_connected, unmatched_connected')
                     <=> ~\E j \in IndexRows : RLess(Rat(6, 10), NameLedScore(Current, j))
        /\ MethodsAddrMatching
             => (Appends(addr_matches, addr_matches')
                   <=> \E j \in Rows : RLeq(Rat(7, 10), AddrLedScore(Current, j)))
        /\ AggAddrMatching
             => (Records("address")
                   <=> \E j \in Rows : RLeq(Rat(7, 10), AddrLedScore(Current, j)))
      ]_vars

\* C8 witness: the name-led script has left unmatched a carpark whose best
\* score is exactly 0.6
C8_Witness ==
    /\ script = "overlap"
    /\ i = 1
    /\ Len(unmatched_connected) = 1
    /\ unmatched_connected[1].score = Rat(6, 10)
    /\ \E j \in Rows : NameLedScore(connected_carparks[1], j) = Rat(6, 10)

\* rows whose full name equals the connected name, case-insensitively
SameNameRows(cp) == {j \in Rows : Lower(db_carparks[j].name) = Lower(cp.name)}

SequentialResult ==
    LET blds == IF building_file = <<>> \/ BuildRaises(building_file[1]) THEN <<>>
                ELSE AggBuildings(building_file[1])
        run(m, am) == LoopFrom(m, am, connected_carparks, 1, db_carparks, blds)
    IN run("polygon", run("address", run("coordinate", <<>>)))

\* what is reported for each matched name: the canonical id and the set of
\* supporting strategies
Fused(am) ==
    [name \in DOMAIN am |->
        [park_id |-> am[name].park_id, methods |-> Range(am[name].methods)]]

LoopsOver == script = "aggregate" /\ pc \in {"report", "done"}

\* C10 (as claimed): whatever the order in which the three strategies are
\* run, the fused result (matched names, canonical id of each,
\* supporting strategies of each) is the one of the sequential run.
C10_OrderIndependent ==
    LoopsOver => Fused(all_matches) = Fused(SequentialResult)

\* strategies that accept a candidate for some row with the given name
SupportingName(name) ==
    {m \in Methods : \E k \in Recs :
        connected_carparks[k].name = name /\ Accepts(m, connected_carparks[k])}

\* C10 (amended): whatever the order in which the three strategy loops are
\* run one after another, the same names are matched, each with the same
\* set of supporting strategies; the canonical id reported for a name is
\* the candidate of whichever strategy wrote the shared entry first, so it
\* depends on the order when the strategies disagree.
C10_OrderFixesOnlyTheId ==
    LoopsOver =>
      /\ DOMAIN all_matches = {connected_carparks[k].name : k \in {h \in Recs :
                                  Supporting(connected_carparks[h]) # {}}}
      /\ \A name \in DOMAIN all_matches :
            /\ Range(all_matches[name].methods) = SupportingName(name)
            /\ \E k \in Recs : \E m \in Methods :
                  /\ connected_carparks[k].name = name
                  /\ Cand(m, connected_carparks[k]) = {all_matches[name].park_id}

\* C10 witness: a run in another order has finished with the names and
\* strategies of the sequential run but with another canonical id for some
\* name
C10_Witness ==
    /\ LoopsOver
    /\ ran # <<>>
    /\ ran # <<"coordinate", "address", "polygon">>
    /\ DOMAIN all_matches = DOMAIN SequentialResult
    /\ \E name \in DOMAIN all_matches :
          /\ Range(all_matches[name].methods) = Range(SequentialResult[name].methods)
          /\ Cardinality(Range(all_matches[name].methods)) >= 2
          /\ all_matches[name].park_id # SequentialResult[name].park_id


\* ------------------------------------------------------------------------
\* Missing inputs
\* ------------------------------------------------------------------------
\* the script stopped on an uncaught exception
Raised == pc \in {"ZeroDivisionError", "NameError", "TypeError"}

\* C11: when the building file is absent or unreadable, the containment
\* strategy matches nothing and the method-comparison script and the
\* aggregate script still run to their end without an error (stated for a
\* connected list that is not empty).
C11_NoFootprintsDegrades ==
    (script \in {"methods", "aggregate"} /\ building_file = <<>>
       /\ connected_carparks # <<>>)
      => /\ ~Raised
         /\ polygon_matches \in {<<>>, << <<>> >>}
         /\ \A name \in DOMAIN all_matches :
               "polygon" \notin Range(all_matches[name].methods)


\* the collection a report divides by is empty: the connected list or, in
\* the building-overlap report, the database carparks or the buildings
EmptyDenominator ==
    IF script = "geojson"
    THEN db_carparks = <<>> \/ connected_buildings(building_file[1]) = <<>>
    ELSE connected_carparks = <<>>

\* C12: no report divides by zero: with an empty denominator the run still
\* finishes, without raising.
C12_NoDivisionByZero == EmptyDenominator => ~Raised


\* C13: with no database carpark and a connected list that is not empty,
\* every matching loop runs through without raising and leaves every
\* connected carpark unmatched, its nearest or best candidate absent.
C13_EmptyCanonicalAllUnmatched ==
    (db_carparks = <<>> /\ connected_carparks # <<>> /\ script # "geojson")
      => /\ pc \notin {"ZeroDivisionError", "TypeError"}
         /\ script = "coords" =>
              /\ matches = <<>>
              /\ Len(unmatched_connected) = i
              /\ \A k \in 1..i :
                    /\ unmatched_connected[k].name = connected_carparks[k].name
                    /\ unmatched_connected[k].nearest_db_name = <<>>
         /\ script = "overlap" =>
              /\ matches = <<>>
              /\ Len(unmatched_connected) = i
              /\ \A k \in 1..i :
                    /\ unmatched_connected[k].name = connected_carparks[k].name
                    /\ unmatched_connected[k].best_match = <<>>
                    /\ unmatched_connected[k].score = Zero
         /\ script = "methods" =>
              /\ coord_matches = <<>>
              /\ addr_matches = <<>>
              /\ polygon_matches \in {<<>>, << <<>> >>}
         /\ script = "aggregate" =>
              /\ all_matches = <<>>
              /\ pc = "done" => /\ report.total = 0
                                /\ report.unmatched = Len(connected_carparks)

\* C13 witness: the standalone coordinate script has finished over two
\* connected carparks and no database carpark
C13_Witness ==
    /\ script = "coords"
    /\ pc = "done"
    /\ db_carparks = <<>>
    /\ Len(connected_carparks) = 2
    /\ Len(unmatched_connected) = 2
    /\ report.matched = 0


\* ------------------------------------------------------------------------
\* Records without usable coordinates
\* ------------------------------------------------------------------------
\* the loader is about to read a row
Loading == pc = "load" /\ unread # <<>>

\* C14: a record whose latitude is missing or not a number never aborts the
\* run; a CSV row without a usable latitude is skipped with a warning, and
\* every other row is loaded, in the order of the file.
C14_BadRecordSkippedWithWarning ==
    [][ /\ pc' # "TypeError"
        /\ Loading =>
             LET row == Head(unread) IN
             /\ unread' = Tail(unread)
             /\ IF row.Latitude.kind = "number"
                THEN /\ connected_carparks' =
                          Append(connected_carparks,
                                 [name |-> row.name, address |-> row.address,
                                  pos |-> row.Latitude.value])
                     /\ warnings' = warnings
                ELSE /\ connected_carparks' = connected_carparks
                     /\ warnings' = warnings + 1
      ]_vars


\* ------------------------------------------------------------------------
\* A footprint that cannot be built
\* ------------------------------------------------------------------------
\* the connected carpark lies in a footprint that can be built, the first
\* such footprint in file order holding a database carpark too
InsideGoodFootprint(cp) ==
    LET at == {k \in 1..Len(PolygonFeatures) : cp.pos \in PolygonFeatures[k].polygon}
    IN /\ at # {}
       /\ \E j \in Rows : db_carparks[j].pos \in PolygonFeatures[First(at)].polygon

\* C15: when a footprint of the file cannot be built only that footprint is
\* dropped: the containment strategy still matches every connected carpark
\* that shares one of the other footprints with a database carpark.
C15_OnlyBadFootprintDropped ==
    /\ (AggDone /\ building_file # <<>>) =>
          \A k \in Recs :
             InsideGoodFootprint(connected_carparks[k]) =>
                /\ connected_carparks[k].name \in DOMAIN all_matches
                /\ "polygon" \in Range(all_matches[connected_carparks[k].name].methods)
    /\ (script = "methods" /\ pc \in {"summary", "done", "NameError"}
          /\ building_file # <<>>) =>
          \A k \in Recs :
             InsideGoodFootprint(connected_carparks[k]) =>
                /\ polygon_matches # <<>>
                /\ \E h \in 1..Len(polygon_matches[1]) :
                      polygon_matches[1][h].connected_name = connected_carparks[k].name


\* ------------------------------------------------------------------------
\* Confidence tier
\* ------------------------------------------------------------------------
TierRank(tier) == CASE tier = "none" -> 0 [] tier = "medium" -> 1 [] tier = "high" -> 2

\* the strategies recorded so far in the entry of a name
RecordedFor(am, name) == IF name \in DOMAIN am THEN Range(am[name].methods) ELSE {}

\* the tier rule of the design over the strategies S that produced a
\* candidate for cp: high when two of them agree on the canonical id,
\* medium when exactly one produced a candidate, none otherwise
AgreementTier(cp, S) ==
    IF \E m, n \in S : m # n /\ Cand(m, cp) = Cand(n, cp) THEN "high"
    ELSE IF Cardinality(S) = 1 THEN "medium"
    ELSE "none"

\* C16 (as claimed): under the rule high = two strategies agree on the id,
\* medium = exactly one strategy produced a candidate, none otherwise, a
\* further strategy producing a candidate never lowers a record's tier.
C16_AgreementTierMonotone ==
    [][ script = "aggregate" =>
          \A k \in Recs :
             LET cp == connected_carparks[k] IN
             NameUnique(k) =>
                TierRank(AgreementTier(cp, RecordedFor(all_matches', cp.name)))
                   >= TierRank(AgreementTier(cp, RecordedFor(all_matches, cp.name)))
      ]_vars

\* the tier by the number of methods the aggregate report counts for an
\* entry as "methods agreeing"
CountTier(n) == IF n = 0 THEN "none" ELSE IF n = 1 THEN "medium" ELSE "high"

\* len(match['methods']) of the entry of a name, 0 without an entry
NumMethods(am, name) == IF name \in DOMAIN am THEN Len(am[name].methods) ELSE 0

\* C16 (amended): the tier by the number of strategies recorded for a
\* record (none for 0, medium for 1, high for 2 or more, whether or not
\* they agree on the id) is never lowered by a further strategy producing a
\* candidate.
C16_CountTierMonotone ==
    [][ script = "aggregate" =>
          \A k \in Recs :
             LET name == connected_carparks[k].name IN
             /\ NumMethods(all_matches', name) >= NumMethods(all_matches, name)
             /\ TierRank(CountTier(NumMethods(all_matches', name)))
                  >= TierRank(CountTier(NumMethods(all_matches, name)))
      ]_vars

\* C16 witness: two strategies have produced different ids for a carpark:
\* counted as two methods, where the agreement rule gives no tier
C16_Witness ==
    /\ AggDone
    /\ \E k \in Recs :
          LET cp == connected_carparks[k] IN
          /\ NameUnique(k)
          /\ Cardinality(Supporting(cp)) = 2
          /\ NumMethods(all_matches, cp.name) = 2
          /\ AgreementTier(cp, Supporting(cp)) = "none"


\* ------------------------------------------------------------------------
\* Address normalisation
\* ------------------------------------------------------------------------
\* C17: normalize_address is idempotent: normalising the result again gives
\* the same string.
C17_NormalizeIdempotent ==
    Len(normalized) = 2 => normalized[2] = normalized[1]


\* ------------------------------------------------------------------------
\* Every strategy looks at the whole of db_carparks
\* ------------------------------------------------------------------------
\* the steps of the containment loops
MethodsPolygonMatching == script = "methods" /\ pc = "m3" /\ i' = i + 1

AggPolygonMatching == script = "aggregate" /\ pc = "m3" /\ i' = i + 1

\* the step of a method-comparison loop appends to its list exactly when
\* the set c, the candidate over the whole of db_carparks, is not empty, and
\* then reports that candidate
ReportsCandidate(q, qNext, c) ==
    /\ Appends(q, qNext) <=> c # {}
    /\ c = {} => qNext = q
    /\ c # {} => Last(qNext).park_id \in c

\* the step of an aggregate loop records method m exactly when the set c is
\* not empty, and an entry it creates carries that candidate
RecordsCandidate(m, c) ==
    /\ Records(m) <=> c # {}
    /\ c = {} => all_matches' = all_matches
    /\ (c # {} /\ Creates) => all_matches'[Current.name].park_id \in c

\* C18: every strategy matches each connected carpark against the whole of
\* db_carparks: what it produces is the candidate over all rows, whether or
\* not a row was already matched by another strategy or for an earlier
\* connected carpark.
C18_FullCollectionEveryTime ==
    [][ /\ MethodsCoordMatching
             => ReportsCandidate(coord_matches, coord_matches', CoordCand(Current))
        /\ MethodsAddrMatching
             => ReportsCandidate(addr_matches, addr_matches', AddrCand(Current))
        /\ MethodsPolygonMatching
             => ReportsCandidate(polygon_matches[1], polygon_matches'[1],
                                 PolyCand(Current))
        /\ AggCoordMatching => RecordsCandidate("coordinate", CoordCand(Current))
        /\ AggAddrMatching => RecordsCandidate("address", AddrCand(Current))
        /\ AggPolygonMatching => RecordsCandidate("polygon", PolyCand(Current))
      ]_vars

\* C18 witness: two connected carparks have been matched to the same
\* database carpark, the second by the strategy that matched the first and
\* by another one
C18_Witness ==
    /\ AggDone
    /\ Len(connected_carparks) = 2
    /\ connected_carparks[1].name # connected_carparks[2].name
    /\ DOMAIN all_matches = {connected_carparks[1].name, connected_carparks[2].name}
    /\ all_matches[connected_carparks[1].name].park_id
         = all_matches[connected_carparks[2].name].park_id
    /\ "coordinate" \in Range(all_matches[connected_carparks[1].name].methods)
    /\ Cardinality(Range(all_matches[connected_carparks[2].name].methods)) >= 2
    /\ "coordinate" \in Range(all_matches[connected_carparks[2].name].methods)


\* ------------------------------------------------------------------------
\* The containment strategy
\* ------------------------------------------------------------------------
\* the footprint a point resolves to: the first one, in the order of the
\* file, that contains it; {} when none does
Resolves(point) ==
    IF Containing(point) = {} THEN {} ELSE {First(Containing(point))}

\* rows whose own point resolves to the footprint cp resolves to
SameResolvedRows(cp) ==
    {j \in Rows : /\ Resolves(cp.pos) # {}
                  /\ Resolves(db_carparks[j].pos) = Resolves(cp.pos)}

ResolvedCand(cp) ==
    IF SameResolvedRows(cp) = {} THEN {}
    ELSE {db_carparks[First(SameResolvedRows(cp))].park_id}

\* C19 (as stated): the containment strategy produces c for e exactly when
\* e resolves to a footprint F and c is the first row of db_carparks whose
\* own point resolves to F, also when footprints overlap.
C19_FirstResolvingToSameFootprint ==
    [][ /\ MethodsPolygonMatching
             => ReportsCandidate(polygon_matches[1], polygon_matches'[1],
                                 ResolvedCand(Current))
        /\ AggPolygonMatching
             => RecordsCandidate("polygon", ResolvedCand(Current))
      ]_vars

\* C19 (amended): the containment strategy produces c for e exactly when e
\* resolves to a footprint F and c is the first row of db_carparks whose
\* point F contains, whether or not an earlier footprint contains that
\* point too; the match names F.
C19_FirstContainedInSameFootprint ==
    [][ /\ MethodsPolygonMatching
             => /\ Appends(polygon_matches[1], polygon_matches'[1])
                     <=> SameFootprintRows(Current) # {}
                /\ Appends(polygon_matches[1], polygon_matches'[1])
                     => LET m == Last(polygon_matches'[1]) IN
                        /\ m.connected_name = Current.name
                        /\ m.park_id =
                             db_carparks[First(SameFootprintRows(Current))].park_id
                        /\ m.building_id =
                             Footprints[First(Containing(Current.pos))].id
        /\ AggPolygonMatching
             => /\ Records("polygon") <=> SameFootprintRows(Current) # {}
                /\ (Records("polygon") /\ Creates)
                     => all_matches'[Current.name].park_id =
                          db_carparks[First(SameFootprintRows(Current))].park_id
      ]_vars

\* C19 witness: a match of the containment strategy whose database carpark
\* lies in the footprint of the connected carpark and in an earlier
\* footprint as well
C19_Witness ==
    /\ script = "methods"
    /\ pc = "done"
    /\ polygon_matches # <<>>
    /\ \E k \in 1..Len(polygon_matches[1]) :
         \E n \in 1..Len(connected_carparks) :
           \E j \in Rows :
             /\ polygon_matches[1][k].connected_name = connected_carparks[n].name
             /\ polygon_matches[1][k].park_id = db_carparks[j].park_id
             /\ j = First(SameFootprintRows(connected_carparks[n]))
             /\ Resolves(db_carparks[j].pos) # Resolves(connected_carparks[n].pos)


\* ------------------------------------------------------------------------
\* The exact-name short-circuit and the scoring loop
\* ------------------------------------------------------------------------
\* what the scoring loop would return for cp: the rows of the name index
\* with the maximum combined score
BestIndexRows(cp) ==
    {j \in IndexRows :
        \A k \in IndexRows : RLeq(NameLedScore(cp, k), NameLedScore(cp, j))}

\* the rows of the name index that carry the name of cp
ExactIndexRows(cp) == IndexRows \cap SameNameRows(cp)

\* C20 (as stated): for a connected carpark whose name equals a database
\* name case-insensitively, the short-circuit returns the database carpark
\* that the scoring loop, the maximum of 0.7 x name similarity + 0.3 x
\* address similarity, would return.
C20_ShortCircuitIsFullLoop ==
    [][ (OverlapMatching /\ SameNameRows(Current) # {})
          => /\ Appends(matches, matches')
             /\ \E j \in BestIndexRows(Current) :
                   Last(matches').park_id = db_carparks[j].park_id
      ]_vars

\* C20 (amended): for such a connected carpark the short-circuit returns
\* the carpark of the name index with that name; the scoring loop gives
\* that carpark a combined score of at least 0.7, so it accepts a carpark
\* too (its maximum is above 0.6), and it returns the same carpark when the
\* connected carpark has no address.
C20_ShortCircuitWithinFullLoop ==
    [][ (OverlapMatching /\ SameNameRows(Current) # {})
          => /\ Appends(matches, matches')
             /\ \E j \in ExactIndexRows(Current) :
                   /\ Last(matches').park_id = db_carparks[j].park_id
                   /\ RLeq(Rat(7, 10), NameLedScore(Current, j))
                   /\ Current.address = <<>> => BestIndexRows(Current) = {j}
             /\ \A j \in BestIndexRows(Current) :
                   RLess(Rat(6, 10), NameLedScore(Current, j))
      ]_vars

\* C20 witness: two exact matches; for the carpark without an address the
\* scoring loop has one best row among several rows, the one returned; for
\* the carpark with an address the loop's best row is another one
C20_Witness ==
    /\ script = "overlap"
    /\ pc = "done"
    /\ Len(connected_carparks) = 2
    /\ Len(matches) = 2
    /\ matches[1].match_type = "exact"
    /\ matches[2].match_type = "exact"
    /\ Cardinality(IndexRows) >= 2
    /\ connected_carparks[1].address = <<>>
    /\ \E j \in Rows : /\ BestIndexRows(connected_carparks[1]) = {j}
                       /\ db_carparks[j].park_id = matches[1].park_id
                       /\ db_carparks[j].name # connected_carparks[1].name
    /\ connected_carparks[2].address # <<>>
    /\ \A j \in BestIndexRows(connected_carparks[2]) :
          db_carparks[j].park_id # matches[2].park_id


\* ------------------------------------------------------------------------
\* Ties of the lexical strategy
\* ------------------------------------------------------------------------
\* rows with the maximum name-led score over all of db_carparks
NameBestRows(cp) ==
    {j \in Rows : \A k \in Rows : RLeq(NameLedScore(cp, k), NameLedScore(cp, j))}

\* the best result of the name-led variant: the rows with the name of cp
\* when there are some, the rows with the maximum score otherwise
NameLedBest(cp) ==
    IF SameNameRows(cp) # {} THEN SameNameRows(cp) ELSE NameBestRows(cp)

\* C21: the lexical strategy scores every row of db_carparks, and of the
\* rows that attain the best result (the same name on the exact path, the
\* maximum combined score otherwise) it returns the first in the order of
\* db_carparks.
C21_FirstOfTheBestRows ==
    [][ /\ (OverlapMatching /\ Appends(matches, matches'))
             => Last(matches').park_id
                  = db_carparks[First(NameLedBest(Current))].park_id
        /\ (MethodsAddrMatching /\ Appends(addr_matches, addr_matches'))
             => Last(addr_matches').park_id
                  = db_carparks[First(AddrBestRows(Current))].park_id
        /\ (AggAddrMatching /\ Records("address") /\ Creates)
             => all_matches'[Current.name].park_id
                  = db_carparks[First(AddrBestRows(Current))].park_id
      ]_vars


\* ------------------------------------------------------------------------
\* Missing addresses in the two lexical variants
\* ------------------------------------------------------------------------
\* C22: for a pair of records of which one address or both are missing, the
\* name-led and the address-led variant use the same address component.
C22_MissingAddressSameComponent ==
    (/\ pc = "pair"
     /\ addr_parts.name_led # <<>>
     /\ addr_parts.addr_led # <<>>
     /\ (pair.conn = <<>> \/ pair.db = <<>>))
        => addr_parts.name_led = addr_parts.addr_led


\* ------------------------------------------------------------------------
\* The building-overlap summary without matches
\* ------------------------------------------------------------------------
\* C23: when no database carpark lies inside a connected building, the
\* summary of the building-overlap script is printed to its end, with 0
\* buildings containing database carparks.
C23_SummaryWithoutMatches ==
    [][ (script = "geojson" /\ pc = "summary" /\ Len(matches) = 0)
          => /\ pc' = "done"
             /\ report'.inside = 0
             /\ report'.buildings_with_matches = 0
      ]_vars


\* ------------------------------------------------------------------------
\* "Method agreement" of the comparison report
\* ------------------------------------------------------------------------
\* connected carparks that all the methods of ms matched to one database id
AgreedBy(ms) ==
    {k \in Recs : \E id \in {db_carparks[j].park_id : j \in Rows} :
        \A m \in ms : Cand(m, connected_carparks[k]) = {id}}

\* C24: each count of "Method agreement" in the comparison report is the
\* number of connected carparks that the named methods all matched to the
\* same database id.
C24_AgreementCountsRecords ==
    (script = "methods" /\ pc = "done") =>
       /\ report.coord_addr = Cardinality(AgreedBy({"coordinate", "address"}))
       /\ report.coord_poly = Cardinality(AgreedBy({"coordinate", "polygon"}))
       /\ report.addr_poly = Cardinality(AgreedBy({"address", "polygon"}))
       /\ report.all_three = Cardinality(AgreedBy(Methods))


Next ==
    \/ CoordsStep
    \/ CoordsSummary
    \/ OverlapStep
    \/ OverlapSummary
    \/ MethodsCoordStep
    \/ MethodsCoordReport
    \/ MethodsAddrStep
    \/ MethodsAddrReport
    \/ MethodsLoadBuildings
    \/ MethodsPolygonStep
    \/ MethodsPolygonReport
    \/ MethodsSummary
    \/ AggCoordStep
    \/ AggCoordDone
    \/ AggAddrStep
    \/ AggAddrDone
    \/ AggLoadBuildings
    \/ AggPolygonStep
    \/ AggPolygonDone
    \/ AggReport
    \/ GeojsonLoad
    \/ GeojsonStep
    \/ GeojsonResults
    \/ GeojsonSummary

Spec == Init /\ [][Next]_vars

NextAnyOrder ==
    \/ \E m \in Methods : RunLoop(m)
    \/ LoopsDone
    \/ AggReport

SpecAnyOrder == InitAnyOrder /\ [][NextAnyOrder]_vars

NextLoad ==
    \/ LoadRow
    \/ LoadDone
    \/ CoordsStep
    \/ CoordsSummary
    \/ MethodsCoordStep
    \/ MethodsCoordReport
    \/ MethodsAddrStep
    \/ MethodsAddrReport
    \/ MethodsLoadBuildings
    \/ MethodsPolygonStep
    \/ MethodsPolygonReport
    \/ MethodsSummary
    \/ AggCoordStep
    \/ AggCoordDone
    \/ AggAddrStep
    \/ AggAddrDone
    \/ AggLoadBuildings
    \/ AggPolygonStep
    \/ AggPolygonDone
    \/ AggReport

SpecLoad == InitLoad /\ [][NextLoad]_vars

NextOverlap ==
    \/ OverlapStep
    \/ OverlapSummary

SpecOverlap == InitOverlap /\ [][NextOverlap]_vars

NextNorm == Normalize

NextPair ==
    \/ ScoreNameLed
    \/ ScoreAddrLed

SpecPair == InitPair /\ [][NextPair]_vars

SpecNorm == InitNorm /\ [][NextNorm]_vars

====
